---------------------------- MODULE Spec2Model ----------------------------
(***************************************************************************)
(* State-machine model of the trading agent's core: the two token buckets  *)
(* (sniper.py TokenBucket, jupiter.py _TokenBucket), the aggregator retry  *)
(* loop (Jupiter._request), the classic coordinator / buy-attempt task /   *)
(* seller loop (sniper.py), the milestone-scalp and dynamic-bag rounds     *)
(* (s1_stairs.py), the pop-gap spike detector (spike_detector.py), the     *)
(* instant-buy path (token_monitor.py, sniper.instant_buy), the quote loop *)
(* of snipe_once, the price oracle (price.py), the program-log watcher     *)
(* (pool_watcher.py), the cleanup blocks of the coordinator and of         *)
(* run_stairs_for_mint, the stairs dispatcher (main.py) with the entry of  *)
(* run_stairs_for_mint, the re-entry loop of run_stairs_for_mint, the      *)
(* market-cap estimate _est_mcap_usd, the bucket detector                  *)
(* (spike_detector._detect_by_buckets) and the ladder loop of              *)
(* dynamic_bag_round.                                                      *)
(*                                                                         *)
(* Each component has its own specification (SpecBucket, SpecRequest,      *)
(* SpecScalp, SpecPops, SpecClassic, SpecSeller, SpecInstant, SpecQuote,   *)
(* SpecPrice, SpecWatcher, SpecCleanup, SpecDispatch, SpecReentry,         *)
(* SpecMcap, SpecBucketDet, SpecLadder) over one set of variables; the     *)
(* variables of the components a specification does not                    *)
(* run keep their initial values.  SpecTogether runs the coordinator, the  *)
(* buy tasks and the seller loop in one program; SpecWatcherFair is        *)
(* SpecWatcher with the reconnect step weakly fair.                        *)
(*                                                                         *)
(* Numbers.  Python floats are modelled by exact integers in fixed units:  *)
(* bucket tokens in 1/TokenUnit of a token, retry delays in units of       *)
(* 50 ms, market caps in thousands of USD, round, detector and seller      *)
(* times in ticks of 250 ms, 25 ms and 100 ms, price impacts in            *)
(* thousandths, oracle prices in cents, oracle times in seconds, the       *)
(* watcher's reconnect wait in ms, dispatcher and re-entry times in ticks  *)
(* of 500 ms, market-cap estimate times in ticks of 50 ms and bucket       *)
(* detector times in ticks of 250 ms.                                      *)
(***************************************************************************)
EXTENDS Integers, Sequences, FiniteSets, TLC

VARIABLES
    \* ---- token buckets (sniper.py:122-136, jupiter.py:8-30)
    clk,          \* the clock read by time.monotonic()/perf_counter(), in ticks
    limiter,      \* sniper.TokenBucket: [rate, capacity, tokens, updated]
    limLog,       \* clock value of every take() that returned True
    jupLimiter,   \* jupiter._TokenBucket: [rate, capacity, tokens, updated]
    jupLog,       \* clock value of every take() that returned
    jpc,          \* per caller of _TokenBucket.take: "idle" | "take" | "sleep"
    jwake,        \* per caller: earliest clock value at which its sleep ends
    \* ---- one logical aggregator call, Jupiter._request (jupiter.py:49-95)
    rqBase,       \* JUP_BACKOFF_BASE_MS, in delay units
    rqPc,         \* "throttle" | "http" | "returned" | "raised"
    rqAttempt,    \* the local `attempt`: HTTP requests sent so far
    rqSleeps,     \* the delays passed to asyncio.sleep, in order, in delay units
    rqAll429,     \* every response so far was a 429
    rqUsedRA,     \* some slept delay came from a Retry-After header
    rqError,      \* which RuntimeError ended the call, "" while none
    \* ---- one round of s1_stairs.py: milestone_scalp_round / dynamic_bag_round
    scMode,       \* "milestone" | "dynamic" (DYNAMIC_BAG_ENABLED)
    scLadder,     \* [levels, fracs]: MCAP_TP_LEVELS and MCAP_TP_FRACTIONS
    scPc,         \* "buy" | "poll" | "returned" | "raised"
    scArmed,      \* armed_stop
    scLast,       \* last_mcap, 0 while None
    scLevels,     \* levels: the take-profit levels not yet consumed
    scFracs,      \* fracs: their sell fractions, in percent
    scNext,       \* next_level of the dynamic ladder
    scT,          \* time.monotonic() - t0, in scalp ticks
    scIdle,       \* idle_deadline - t0, in scalp ticks
    scReadings,   \* every value returned by _est_mcap_usd, in order
    scSells,      \* every sell_fraction call: [poll, pct], in order
    scExit,       \* which exit ended the round, "" while none
    \* ---- spike_detector._detect_by_pops
    pdPc,         \* "recv" | "true" | "false" | "raised"
    pdT,          \* time.monotonic() - start at the top of the loop, in ticks
    pdLast,       \* last_t - start, -1 while None
    pdPops,       \* pops: the current chain of pop times
    pdLog,        \* the time of every pop received, in order
    pdMsgs,       \* messages received so far
    \* ---- sniper.py classic mode: coordinator, buy-attempt tasks, seller_loop
    seen,         \* the coordinator's set `seen`
    spawned,      \* per mint: buy-attempt tasks created so far
    bt,           \* per mint: its buy-attempt task [pc, first, attempt, wake]
                  \* and the balance_seen of its last snipe_once
    submitted,    \* per mint: buy swaps sent by snipe_once so far
    sellQ,        \* sell_q: the items [mint, sell_at, tries], oldest first
    slPc,         \* seller_loop: "get" | "wait" | "work" | "dead"
    slItem,       \* the item seller_loop holds, NoItem while none
    schedule,     \* SELL_RETRY_SCHEDULE
    sh,           \* per mint: what the seller did with its intent so far
    nCands,       \* candidates the coordinator has evaluated
    dups,         \* per mint: candidates skipped as already seen
    verdict,      \* the branch the coordinator took for its last candidate
    \* ---- token_monitor.py / sniper.instant_buy: one seller_loop per buy
    ibPc,         \* monitor_pumpfun_tokens: "recv" | "crashed"
    ibLoops,      \* the seller_loop tasks created so far: [pc, q, item] each
    \* ---- one call of sniper.snipe_once
    sqFloor,      \* MIN_LIQUIDITY_USD
    sqPc,         \* "quote" | "swap" | "send" | "sent" | "raised"
    sqLog,        \* what every jup.quote call did, in order
    sqQuote,      \* the local `quote`, NoQuote while None
    sqSwaps,      \* jup.swap_tx calls made
    \* ---- the price oracle: price.get_sol_usd_price, _get_sol_usd_cached
    prClock,      \* time.monotonic(), in seconds
    prCache,      \* _SOL_PRICE_CACHE: [t, v]
    prResp,       \* what the last upstream request did, NoResponse if none
    prResult,     \* how the last call ended: a value returned, or raised
    prCalls,      \* calls made so far
    \* ---- pool_watcher.raydium_new_pool_stream
    wWatch,       \* WATCH_PROGRAM_IDS
    wForce,       \* FORCE_TOKEN_MINT, NoAddress if unset
    wPc,          \* "start" | "connecting" | "listening" | "backoff" | "returned"
    wSeen,        \* the watcher's set `seen`
    wPuts,        \* per address: out_q.put calls made with it as mint
    wPending,     \* _tx_fallback_task tasks created and not yet run
    wMsg,         \* the message of the last pass of the receive loop
    wMsgs,        \* messages received so far
    wConns,       \* connections opened so far
    wBeats,       \* heartbeat tasks created and not ended
    wDups,        \* candidates skipped as seen, by path: [log, tx]
    wWait,        \* length in ms of the last sleep before a reconnect, 0 if none
    \* ---- cancellation of sniper.coordinator or s1_stairs.run_stairs_for_mint
    cuSite,       \* which of the two tasks
    cuPc,         \* "loop" | "seller" | "jup" | "wallet" | "done" | "escaped"
    cuSeller,     \* seller_loop: "get" | "wait" | "work" | "failed" | "cancelled"
    cuPasses,     \* passes of the task's loop before its cancellation
    cuLog,        \* the cleanup steps run, in order: [step, sig]
    cuClosed,     \* the sessions closed
    \* ---- main._stairs_dispatcher and its run_stairs_for_mint tasks
    dCfg,         \* STAIRS_MAX_CONCURRENT
    dDynamic,     \* DYNAMIC_BAG_ENABLED
    dPc,          \* the dispatcher: "get" | "acquire"
    dHeld,        \* the mint it holds while waiting in sem.acquire()
    dSem,         \* the value of the semaphore
    dActive,      \* the set `active`
    dTask,        \* per mint: its task [pc, bucket], NoStairs while none
    dClk,         \* time.monotonic(), in ticks
    dBuys,        \* the time of every buy_once started, in order
    dStarts,      \* tasks created so far
    dLastEnd,     \* how the last task to end ended, "" if none has
    dWaited,      \* the dispatcher has waited in sem.acquire()
    \* ---- the re-entry loop of s1_stairs.run_stairs_for_mint
    rnReenter,    \* SCALP_REENTER_UNTIL_LOSS
    rnNeedsPop,   \* REENTER_NEEDS_NEXT_POP
    rnPc,         \* "take" | "round" | "blacklist" | "gate" | "cooldown" |
                  \* "done" | "raised"
    rnBucket,     \* the task's limiter
    rnClk,        \* time.monotonic(), in ticks
    rnLog,        \* the rounds started: [pnl, gate], gate "running" at first
    \* ---- s1_stairs._est_mcap_usd
    meClock,      \* _time.monotonic(), in ticks
    meCache,      \* _PRICE_CACHE[mint]: [t, v], NoEntry while absent
    meLog,        \* the calls made: what the aggregator and the oracle had
                  \* to offer, and the estimate returned
    \* ---- spike_detector._detect_by_buckets
    bdCfg,        \* [secs, required, window, cum]: SPIKE_BUCKET_SECS,
                  \* SPIKE_REQUIRED, SPIKE_WINDOW_SEC, PUMP_CUM_WINDOW_SEC
    bdPc,         \* "top" | "recv" | "true" | "false" | "raised"
    bdT,          \* time.monotonic() - start, in ticks
    bdStart,      \* bucket_start - start
    bdEvents,     \* bucket_events
    bdQualified,  \* qualified_buckets
    bdInWindow,   \* events_in_window
    bdMsgs,       \* messages received so far
    bdClosed,     \* per finalized bucket: the non-empty batches it received
    bdEarly,      \* the cumulative early trigger returned True
    \* ---- the ladder loop of dynamic_bag_round (s1_stairs.py:229-232)
    ldStep,       \* DYNAMIC_BAG_STEP_USD as configured
    ldPc,         \* "poll" | "ladder" | "raised"
    ldMcap,       \* the reading of the poll under way, 0 before the first
    ldLevel,      \* next_level
    ldSold,       \* the levels sold at, in order
    ldPolls       \* polls made so far

bucketVars == <<clk, limiter, limLog, jupLimiter, jupLog, jpc, jwake>>
requestVars == <<rqBase, rqPc, rqAttempt, rqSleeps, rqAll429, rqUsedRA, rqError>>

scalpVars == <<scMode, scLadder, scPc, scArmed, scLast, scLevels, scFracs, scNext, scT,
               scIdle, scReadings, scSells, scExit>>

popsVars == <<pdPc, pdT, pdLast, pdPops, pdLog, pdMsgs>>

classicVars == <<seen, spawned, bt, submitted, sellQ, slPc, slItem, schedule,
                 sh, nCands, dups, verdict>>

instantVars == <<ibPc, ibLoops>>

\* The components added after the classic coordinator.
quoteVars == <<sqFloor, sqPc, sqLog, sqQuote, sqSwaps>>

priceVars == <<prClock, prCache, prResp, prResult, prCalls>>

watcherVars == <<wWatch, wForce, wPc, wSeen, wPuts, wPending, wMsg, wMsgs,
                 wConns, wDups, wWait, wBeats>>

cleanupVars == <<cuSite, cuPc, cuSeller, cuPasses, cuLog, cuClosed>>

dispatchVars == <<dCfg, dDynamic, dPc, dHeld, dSem, dActive, dTask, dClk,
                  dBuys, dStarts, dLastEnd, dWaited>>

reentryVars == <<rnReenter, rnNeedsPop, rnPc, rnBucket, rnClk, rnLog>>

mcapVars == <<meClock, meCache, meLog>>

bucketDetVars == <<bdCfg, bdPc, bdT, bdStart, bdEvents, bdQualified,
                   bdInWindow, bdMsgs, bdClosed, bdEarly>>

ladderVars == <<ldStep, ldPc, ldMcap, ldLevel, ldSold, ldPolls>>

lateVars == <<reentryVars, mcapVars, bucketDetVars, ladderVars>>

moreVars == <<cleanupVars, dispatchVars, lateVars>>

restVars == <<instantVars, quoteVars, priceVars, watcherVars, moreVars>>

vars == <<bucketVars, requestVars, scalpVars, popsVars, classicVars, restVars>>

\* What the actions of each component leave alone.
outsideBuckets == <<scalpVars, popsVars, classicVars, restVars>>
outsideScalp == <<bucketVars, requestVars, popsVars, classicVars, restVars>>
outsidePops == <<bucketVars, requestVars, scalpVars, classicVars, restVars>>
outsideClassic == <<requestVars, scalpVars, popsVars, restVars>>
outsideInstant == <<requestVars, scalpVars, popsVars, quoteVars, priceVars,
                    watcherVars, moreVars>>
outsideQuote == <<bucketVars, requestVars, scalpVars, popsVars, classicVars,
                  instantVars, priceVars, watcherVars, moreVars>>
outsidePrice == <<bucketVars, requestVars, scalpVars, popsVars, classicVars,
                  instantVars, quoteVars, watcherVars, moreVars>>
outsideWatcher == <<bucketVars, requestVars, scalpVars, popsVars, classicVars,
                    instantVars, quoteVars, priceVars, moreVars>>
oldVars == <<bucketVars, requestVars, scalpVars, popsVars, classicVars,
             instantVars, quoteVars, priceVars, watcherVars>>
outsideCleanup == <<oldVars, dispatchVars, lateVars>>
outsideDispatch == <<oldVars, cleanupVars, lateVars>>
settledVars == <<oldVars, cleanupVars, dispatchVars>>
outsideReentry == <<settledVars, mcapVars, bucketDetVars, ladderVars>>
outsideMcap == <<settledVars, reentryVars, bucketDetVars, ladderVars>>
outsideBucketDet == <<settledVars, reentryVars, mcapVars, ladderVars>>
outsideLadder == <<settledVars, reentryVars, mcapVars, bucketDetVars>>

Min(a, b) == IF a <= b THEN a ELSE b
Max(a, b) == IF a >= b THEN a ELSE b
CeilDiv(a, b) == (a + b - 1) \div b

-----------------------------------------------------------------------------
(***************************************************************************)
(* Token buckets                                                           *)
(***************************************************************************)

\* One token, in bucket units (amount=1.0 of take()).
TokenUnit == 4

\* Bounds of the bucket harness.
MaxClock == 4
MaxTakes == 3
\* The tasks that call _JUP_LIMITER.take concurrently.
Callers == {"t1", "t2"}

\* Configurations tried: refill rate in bucket units per tick, burst in tokens.
BucketRates == {1, 3}
BucketBursts == {1, 2}

\* TokenBucket.__init__ / _TokenBucket.__init__: a full bucket.
NewBucket(rate, burst, now) ==
    [rate |-> rate, capacity |-> burst * TokenUnit,
     tokens |-> burst * TokenUnit, updated |-> now]

\* Refill without the min(capacity, ...) saturation.
RefillUncapped(b, now) ==
    [b EXCEPT !.tokens = b.tokens + (now - b.updated) * b.rate,
              !.updated = now]

\* tokens = min(capacity, tokens + (now - updated) * rate); updated = now
Refill(b, now) ==
    [b EXCEPT !.tokens = Min(b.capacity, b.tokens + (now - b.updated) * b.rate),
              !.updated = now]

\* The bucket after take(amount) at clock value now, and whether it admits.
TakeAdmits(b, now, amount) == Refill(b, now).tokens >= amount

\* take() granting without the decrement.
TakeBucketFree(b, now, amount) == Refill(b, now)

TakeBucket(b, now, amount) ==
    LET r == Refill(b, now)
    IN  IF r.tokens >= amount THEN [r EXCEPT !.tokens = r.tokens - amount] ELSE r

\* time passes
Tick ==
    /\ clk < MaxClock
    /\ clk' = clk + 1
    /\ UNCHANGED <<limiter, limLog, jupLimiter, jupLog, jpc, jwake>>
    /\ UNCHANGED requestVars
    /\ UNCHANGED outsideBuckets

\* sniper.TokenBucket.take(1.0): non-blocking, True or False at once.
LimTake ==
    /\ Len(limLog) < MaxTakes
    /\ limiter' = TakeBucket(limiter, clk, TokenUnit)
    /\ limLog' = IF TakeAdmits(limiter, clk, TokenUnit)
                 THEN Append(limLog, clk) ELSE limLog
    /\ UNCHANGED <<clk, jupLimiter, jupLog, jpc, jwake>>
    /\ UNCHANGED requestVars
    /\ UNCHANGED outsideBuckets

\* A task calls `await _JUP_LIMITER.take(1.0)`.
JupCall(c) ==
    /\ jpc[c] = "idle"
    /\ Len(jupLog) < MaxTakes
    /\ jpc' = [jpc EXCEPT ![c] = "take"]
    /\ UNCHANGED <<clk, limiter, limLog, jupLimiter, jupLog, jwake>>
    /\ UNCHANGED requestVars
    /\ UNCHANGED outsideBuckets

\* One pass of the while-loop of _TokenBucket.take: the `async with _lock`
\* block holds no await, so refill, test and decrement are one step; a
\* failed pass goes to sleep for max(0.01, amount / rate).
JupTry(c) ==
    /\ jpc[c] = "take"
    /\ jupLimiter' = TakeBucket(jupLimiter, clk, TokenUnit)
    /\ IF TakeAdmits(jupLimiter, clk, TokenUnit)
       THEN /\ jupLog' = Append(jupLog, clk)
            /\ jpc' = [jpc EXCEPT ![c] = "idle"]
            /\ UNCHANGED jwake
       ELSE /\ jpc' = [jpc EXCEPT ![c] = "sleep"]
            /\ jwake' = [jwake EXCEPT
                           ![c] = clk + Max(1, CeilDiv(TokenUnit, jupLimiter.rate))]
            /\ UNCHANGED jupLog
    /\ UNCHANGED <<clk, limiter, limLog>>
    /\ UNCHANGED requestVars
    /\ UNCHANGED outsideBuckets

\* asyncio.sleep() is over: back to the top of the while-loop.
JupWake(c) ==
    /\ jpc[c] = "sleep"
    /\ clk >= jwake[c]
    /\ jpc' = [jpc EXCEPT ![c] = "take"]
    /\ UNCHANGED <<clk, limiter, limLog, jupLimiter, jupLog, jwake>>
    /\ UNCHANGED requestVars
    /\ UNCHANGED outsideBuckets

-----------------------------------------------------------------------------
(***************************************************************************)
(* Jupiter._request: one logical aggregator call (jupiter.py:49-95)        *)
(***************************************************************************)

\* Delays, bases and jitter are in delay units of 50 ms.

\* JUP_MAX_RETRIES (config.py:332)
JUP_MAX_RETRIES == 5

\* Values of JUP_BACKOFF_BASE_MS tried, in delay units: 100 ms, 200 ms (the
\* default, config.py:333) and 500 ms.
BackoffBases == {2, 4, 10}

\* The jitter span 0.2 s of random.uniform(0, 0.2), in delay units.
JitterSpan == 4

\* random.uniform(0, 0.2): 0, 50, 100 and 150 ms.
JitterDraws == 0 .. JitterSpan - 1

\* float(ra) of a Retry-After header that parses, in delay units (0.05 s, 2 s).
RetryAfterValues == {1, 40}

\* `delay = 1.0` when float(ra) raises.
RetryAfterFallback == 20

\* The backoff without its exponential factor.
BackoffDelayFlat(base, attempt, jitter) == base + jitter

\* (JUP_BACKOFF_BASE_MS / 1000.0) * (2 ** (attempt - 1)) + random.uniform(0, 0.2)
BackoffDelay(base, attempt, jitter) == base * 2 ^ (attempt - 1) + jitter

\* The retry guard one short.
MayRetryOneShort(attempt) == attempt < JUP_MAX_RETRIES

\* `if attempt <= JUP_MAX_RETRIES:` sleep and continue, else raise.
MayRetry(attempt) == attempt <= JUP_MAX_RETRIES

\* After a retryable outcome, `continue` going back to the limiter.
AttemptEndsAtThrottle(retry) == IF retry THEN "throttle" ELSE "raised"

\* Where a retryable outcome leaves the call: `continue` re-enters the body of
\* `while True:` (line 54), below the take of line 51; else the raise.
AttemptEnds(retry) == IF retry THEN "http" ELSE "raised"

\* `await _JUP_LIMITER.take(1.0)` before the first attempt.
ReqThrottle ==
    /\ rqPc = "throttle"
    /\ TakeAdmits(jupLimiter, clk, TokenUnit)
    /\ jupLimiter' = TakeBucket(jupLimiter, clk, TokenUnit)
    /\ jupLog' = Append(jupLog, clk)
    /\ rqPc' = "http"
    /\ UNCHANGED <<clk, limiter, limLog, jpc, jwake>>
    /\ UNCHANGED <<rqBase, rqAttempt, rqSleeps, rqAll429, rqUsedRA, rqError>>
    /\ UNCHANGED outsideBuckets

\* A retryable outcome of attempt rqAttempt + 1: sleep `delay` and go round
\* the loop again while attempt <= JUP_MAX_RETRIES, else raise `err`.
ReqRetryOrRaise(delay, is429, fromRA, err) ==
    LET attempt == rqAttempt + 1
    IN  /\ rqPc = "http"
        /\ rqAttempt' = attempt
        /\ rqAll429' = (rqAll429 /\ is429)
        /\ rqPc' = AttemptEnds(MayRetry(attempt))
        /\ IF MayRetry(attempt)
           THEN /\ rqSleeps' = Append(rqSleeps, delay)
                /\ rqUsedRA' = (rqUsedRA \/ fromRA)
                /\ UNCHANGED rqError
           ELSE /\ rqError' = err
                /\ UNCHANGED <<rqSleeps, rqUsedRA>>
        /\ UNCHANGED <<rqBase, bucketVars>>
        /\ UNCHANGED outsideBuckets

\* status 429 without a Retry-After header
Req429 ==
    \E j \in JitterDraws :
        ReqRetryOrRaise(BackoffDelay(rqBase, rqAttempt + 1, j), TRUE, FALSE, "429")

\* status 429 with a Retry-After header, parseable or not
Req429RetryAfter ==
    \E d \in RetryAfterValues \cup {RetryAfterFallback} :
        ReqRetryOrRaise(d, TRUE, TRUE, "429")

\* status 500..599
Req5xx ==
    \E j \in JitterDraws :
        ReqRetryOrRaise(BackoffDelay(rqBase, rqAttempt + 1, j), FALSE, FALSE, "5xx")

\* aiohttp.ClientError
ReqClientError ==
    \E j \in JitterDraws :
        ReqRetryOrRaise(BackoffDelay(rqBase, rqAttempt + 1, j), FALSE, FALSE, "client")

\* A 200 with an unparseable body going round the loop again.
FinalEndsRetryBadJson(end) ==
    IF end = "" THEN "returned" ELSE IF end = "badjson" THEN "http" ELSE "raised"

\* `raise RuntimeError(f"jupiter http ...")` (86), `return await r.json()`
\* (89) and `raise RuntimeError(f"bad json: ...")` (91): none is caught by
\* `except aiohttp.ClientError`.
FinalEnds(end) == IF end = "" THEN "returned" ELSE "raised"

\* Any other outcome ends the call at once: another non-200 status and a 200
\* with an unparseable body raise, a 200 with a JSON body returns.
ReqFinal ==
    /\ rqPc = "http"
    /\ rqAttempt' = rqAttempt + 1
    /\ rqAll429' = FALSE
    /\ \E end \in {"http", "badjson", ""} :
          /\ rqError' = end
          /\ rqPc' = FinalEnds(end)
    /\ UNCHANGED <<rqBase, rqSleeps, rqUsedRA, bucketVars>>
    /\ UNCHANGED outsideBuckets

-----------------------------------------------------------------------------
(***************************************************************************)
(* s1_stairs.py: one milestone-scalp round and one dynamic-bag round       *)
(***************************************************************************)

\* Market caps are in thousands of USD, fractions in percent, times in scalp
\* ticks of MCAP_CHECK_INTERVAL_MS = 250 ms (config.py:281).

\* MCAP_SELL_ALL_LEVEL, MCAP_ARM_STOP_AFTER, MCAP_STOP_LOSS (config.py:292-295)
MCAP_SELL_ALL_LEVEL == 160
MCAP_ARM_STOP_AFTER == 115
MCAP_STOP_LOSS == 110
\* INSTANT_DROP_STOP_PCT = 3.5 (config.py:296), in tenths of a percent
INSTANT_DROP_STOP_PCT == 35
\* SCALP_HOLD_SEC = 3.0 s (config.py:248), in scalp ticks
SCALP_HOLD_SEC == 12
\* DYNAMIC_BAG_* (config.py:320-327): start and step in thousands of USD,
\* sell fraction in percent, ceiling in thousands of USD, timeouts in ticks.
DYNAMIC_BAG_START_USD == 120
DYNAMIC_BAG_STEP_USD == 10
DYNAMIC_BAG_SELL_FRAC == 10
DYNAMIC_BAG_MAX_USD == 2000
DYNAMIC_BAG_IDLE_TIMEOUT_SEC == 40
DYNAMIC_BAG_MAX_DURATION_SEC == 2400

\* Polls modelled per round.
MaxPolls == 4

\* MCAP_TP_LEVELS with MCAP_TP_FRACTIONS: the default (config.py:290-291) and
\* a three-level ladder set through the environment.
DefaultLadder == [levels |-> <<120, 130, 140, 150>>, fracs |-> <<30, 25, 20, 15>>]
ShortLadder == [levels |-> <<120, 130, 140>>, fracs |-> <<30, 25, 20>>]
LadderConfigs == {DefaultLadder, ShortLadder}

\* Values returned by _est_mcap_usd; 0 stands for every reading <= 0.
McapReadings == {0, 93, 100, 110, 112, 115, 121, 131, 161, 2000}

\* Ticks spent in one poll on awaits other than its closing sleep: the quote
\* behind _est_mcap_usd, the sells, the wait for fresh flow.
PollLatency == {0, 40, 2400}

\* The drop test against a threshold of 10 percent.
InstantDropTenPct(last, mcap) ==
    last > 0 /\ 1000 * (last - mcap) >= 100 * last

\* last_mcap is not None and
\* 100.0 * (last_mcap - mcap) / max(1e-9, last_mcap) >= INSTANT_DROP_STOP_PCT
InstantDrop(last, mcap) ==
    last > 0 /\ 1000 * (last - mcap) >= INSTANT_DROP_STOP_PCT * last

\* The stop test without `armed_stop and`.
StopLossUnarmed(armed, mcap) == mcap <= MCAP_STOP_LOSS

\* `if armed_stop and mcap <= MCAP_STOP_LOSS:` after
\* `if not armed_stop and mcap >= MCAP_ARM_STOP_AFTER: armed_stop = True`
StopLoss(armed, mcap) == armed /\ mcap <= MCAP_STOP_LOSS

\* How the round ends after an EXIT ALL sell: sell_fraction or the
\* get_lamports after it may raise, else the round returns.
RoundEnds == {"returned", "raised"}

\* pre_lamports = get_lamports(); buy_once(); levels, fracs, armed_stop,
\* last_mcap, next_level and the deadlines are set up; t0 = time.monotonic().
ScalpBuy ==
    /\ scPc = "buy"
    /\ \E ok \in BOOLEAN :
          /\ scPc' = IF ok THEN "poll" ELSE "raised"
          /\ scExit' = IF ok THEN "" ELSE "buy"
    /\ UNCHANGED <<scMode, scLadder, scArmed, scLast, scLevels, scFracs, scNext, scT,
                   scIdle, scReadings, scSells>>
    /\ UNCHANGED outsideScalp

\* One sell_fraction(frac) call at poll n.
Sold(sells, n, pct) == Append(sells, [poll |-> n, pct |-> pct])

\* An EXIT ALL branch that leaves without selling.
ExitAllSkipped(sells, n) == sells

\* `await sell_fraction(wallet, jup, mint, 1.0)` of an EXIT ALL branch.
ExitAll(sells, n) == Sold(sells, n, 100)

\* One iteration of the while-loop of milestone_scalp_round.
MilestonePoll ==
    /\ scMode = "milestone" /\ scPc = "poll"
    /\ scT < SCALP_HOLD_SEC
    /\ Len(scReadings) < MaxPolls
    /\ \E mcap \in McapReadings, d \in PollLatency :
        LET n == Len(scReadings) + 1
            armed == scArmed \/ mcap >= MCAP_ARM_STOP_AFTER
            tp == scLevels # <<>> /\ mcap >= Head(scLevels)
            frac == IF scFracs # <<>> THEN Head(scFracs) ELSE 0
            afterTp == IF tp THEN Sold(scSells, n, frac) ELSE scSells
        IN  /\ scReadings' = Append(scReadings, mcap)
            /\ IF mcap <= 0
               THEN \* sleep; continue
                    /\ scT' = scT + d + 1
                    /\ UNCHANGED <<scPc, scArmed, scLast, scLevels, scFracs,
                                   scSells, scExit>>
               ELSE IF InstantDrop(scLast, mcap)
               THEN \* instant drop: EXIT ALL
                    /\ scSells' = ExitAll(scSells, n)
                    /\ scPc' \in RoundEnds
                    /\ scExit' = "drop"
                    /\ scT' = scT + d
                    /\ UNCHANGED <<scArmed, scLast, scLevels, scFracs>>
               ELSE IF StopLoss(armed, mcap)
               THEN \* mcap stop: EXIT ALL
                    /\ scLast' = mcap
                    /\ scArmed' = armed
                    /\ scSells' = ExitAll(scSells, n)
                    /\ scPc' \in RoundEnds
                    /\ scExit' = "stop"
                    /\ scT' = scT + d
                    /\ UNCHANGED <<scLevels, scFracs>>
               ELSE \E tpOk \in IF tp THEN BOOLEAN ELSE {TRUE} :
                    /\ scLast' = mcap
                    /\ scArmed' = armed
                    /\ IF ~tpOk
                       THEN \* the take-profit sell raises before levels.pop(0)
                            /\ scSells' = afterTp
                            /\ scPc' = "raised"
                            /\ scExit' = "tp"
                            /\ scT' = scT + d
                            /\ UNCHANGED <<scLevels, scFracs>>
                       ELSE /\ scLevels' = IF tp THEN Tail(scLevels) ELSE scLevels
                            /\ scFracs' = IF tp /\ scFracs # <<>>
                                          THEN Tail(scFracs) ELSE scFracs
                            /\ IF mcap >= MCAP_SELL_ALL_LEVEL
                               THEN \* reached the sell-all level: EXIT ALL
                                    /\ scSells' = ExitAll(afterTp, n)
                                    /\ scPc' \in RoundEnds
                                    /\ scExit' = "sellall"
                                    /\ scT' = scT + d
                               ELSE \* sleep
                                    /\ scSells' = afterTp
                                    /\ scT' = scT + d + 1
                                    /\ UNCHANGED <<scPc, scExit>>
    /\ UNCHANGED <<scMode, scLadder, scNext, scIdle>>
    /\ UNCHANGED outsideScalp

\* The while-condition fails: the hold time is over, sell what remains.
MilestoneHoldExpired ==
    /\ scMode = "milestone" /\ scPc = "poll"
    /\ scT >= SCALP_HOLD_SEC
    /\ scPc' \in RoundEnds
    /\ scSells' = ExitAll(scSells, 0)
    /\ scExit' = "hold"
    /\ UNCHANGED <<scMode, scLadder, scArmed, scLast, scLevels, scFracs, scNext, scT,
                   scIdle, scReadings>>
    /\ UNCHANGED outsideScalp

\* k consecutive sell_fraction(pct) calls at poll n.
SoldTimes(sells, n, pct, k) ==
    sells \o [i \in 1 .. k |-> [poll |-> n, pct |-> pct]]

\* Passes of `while mcap >= next_level: sell; next_level += STEP`.
LadderHits(mcap, next) ==
    IF mcap >= next THEN (mcap - next) \div DYNAMIC_BAG_STEP_USD + 1 ELSE 0

\* Ladder sells of one poll that may raise: none (0), the first or the second.
LadderFailures(hits) == 0 .. Min(hits, 2)

\* Top of the while-loop of dynamic_bag_round at or after absolute_deadline.
DynamicDeadline ==
    /\ scMode = "dynamic" /\ scPc = "poll"
    /\ scT >= DYNAMIC_BAG_MAX_DURATION_SEC
    /\ scPc' \in RoundEnds
    /\ scSells' = ExitAll(scSells, 0)
    /\ scExit' = "deadline"
    /\ UNCHANGED <<scMode, scLadder, scArmed, scLast, scLevels, scFracs, scNext, scT,
                   scIdle, scReadings>>
    /\ UNCHANGED outsideScalp

\* One iteration of the while-loop of dynamic_bag_round before the deadline.
DynamicPoll ==
    /\ scMode = "dynamic" /\ scPc = "poll"
    /\ scT < DYNAMIC_BAG_MAX_DURATION_SEC
    /\ Len(scReadings) < MaxPolls
    /\ \E mcap \in McapReadings, d \in PollLatency :
        LET n == Len(scReadings) + 1
            armed == scArmed \/ mcap >= MCAP_ARM_STOP_AFTER
            hits == LadderHits(mcap, scNext)
            now == scT + d
        IN  /\ scReadings' = Append(scReadings, mcap)
            /\ IF mcap <= 0
               THEN \* sleep; continue
                    /\ scT' = now + 1
                    /\ UNCHANGED <<scPc, scArmed, scLast, scNext, scIdle,
                                   scSells, scExit>>
               ELSE IF InstantDrop(scLast, mcap)
               THEN \* instant drop: EXIT ALL
                    /\ scSells' = ExitAll(scSells, n)
                    /\ scPc' \in RoundEnds
                    /\ scExit' = "drop"
                    /\ scT' = now
                    /\ UNCHANGED <<scArmed, scLast, scNext, scIdle>>
               ELSE IF StopLoss(armed, mcap)
               THEN \* mcap stop: EXIT ALL
                    /\ scLast' = mcap
                    /\ scArmed' = armed
                    /\ scSells' = ExitAll(scSells, n)
                    /\ scPc' \in RoundEnds
                    /\ scExit' = "stop"
                    /\ scT' = now
                    /\ UNCHANGED <<scNext, scIdle>>
               ELSE IF mcap >= DYNAMIC_BAG_MAX_USD
               THEN \* reached the ceiling: EXIT ALL
                    /\ scLast' = mcap
                    /\ scArmed' = armed
                    /\ scSells' = ExitAll(scSells, n)
                    /\ scPc' \in RoundEnds
                    /\ scExit' = "max"
                    /\ scT' = now
                    /\ UNCHANGED <<scNext, scIdle>>
               ELSE \E failAt \in LadderFailures(hits) :
                    /\ scLast' = mcap
                    /\ scArmed' = armed
                    /\ IF failAt > 0
                       THEN \* a ladder sell raises before its next_level += STEP
                            /\ scSells' = SoldTimes(scSells, n,
                                                    DYNAMIC_BAG_SELL_FRAC, failAt)
                            /\ scNext' = scNext + (failAt - 1) * DYNAMIC_BAG_STEP_USD
                            /\ scPc' = "raised"
                            /\ scExit' = "ladder"
                            /\ scT' = now
                            /\ UNCHANGED scIdle
                       ELSE \E flow \in BOOLEAN :
                            \* ok_flow of wait_for_next_pop_or_bucket
                            LET idle == IF flow
                                        THEN now + DYNAMIC_BAG_IDLE_TIMEOUT_SEC
                                        ELSE scIdle
                                sold == SoldTimes(scSells, n,
                                                  DYNAMIC_BAG_SELL_FRAC, hits)
                            IN  /\ scNext' = scNext + hits * DYNAMIC_BAG_STEP_USD
                                /\ scIdle' = idle
                                /\ IF now >= idle
                                   THEN \* no fresh flow: EXIT ALL
                                        /\ scSells' = ExitAll(sold, n)
                                        /\ scPc' \in RoundEnds
                                        /\ scExit' = "idle"
                                        /\ scT' = now
                                   ELSE \* sleep
                                        /\ scSells' = sold
                                        /\ scT' = now + 1
                                        /\ UNCHANGED <<scPc, scExit>>
    /\ UNCHANGED <<scMode, scLadder, scLevels, scFracs>>
    /\ UNCHANGED outsideScalp

-----------------------------------------------------------------------------
(***************************************************************************)
(* spike_detector.py: the pop-gap detector _detect_by_pops                 *)
(***************************************************************************)

\* Times are in detector ticks of 25 ms, counted from `start`.

\* SPIKE_WINDOW_SEC = 60 s, SPIKE_REQUIRED, SPIKE_GAP_MIN_MS = 800 ms and
\* SPIKE_GAP_MAX_MS = 6000 ms (config.py:241-245), in detector ticks.
SPIKE_WINDOW_SEC == 2400
SPIKE_REQUIRED == 4
SPIKE_GAP_MIN_MS == 32
SPIKE_GAP_MAX_MS == 240
\* The floor 0.05 s of `remaining` (spike_detector.py:50), in detector ticks.
RecvFloor == 2

\* Messages received per run of the detector.
MaxMsgs == 5

\* Ticks between the call of ws.recv() and the clock reading that follows the
\* arrival of the next message; wait_for delivers it up to the timeout.
RecvDelays == {1, 32, 240, 241, 2304}

\* The gap test without its upper limit.
GapAtLeastMin(gap) == SPIKE_GAP_MIN_MS <= gap

\* SPIKE_GAP_MIN_MS <= (now - last_t) * 1000 <= SPIKE_GAP_MAX_MS
GapInRange(gap) == SPIKE_GAP_MIN_MS <= gap /\ gap <= SPIKE_GAP_MAX_MS

\* remaining = max(0.05, SPIKE_WINDOW_SEC - (time.monotonic() - start))
Remaining(elapsed) == Max(RecvFloor, SPIKE_WINDOW_SEC - elapsed)

\* ws.recv() returns a log batch with non-empty logs before the timeout.
PopRecvPop ==
    /\ pdPc = "recv"
    /\ pdT <= SPIKE_WINDOW_SEC
    /\ pdMsgs < MaxMsgs
    /\ \E d \in RecvDelays :
        LET now == pdT + d
            linked == pdLast < 0 \/ GapInRange(now - pdLast)
            pops == IF linked THEN Append(pdPops, now) ELSE <<now>>
        IN  /\ d <= Remaining(pdT)
            /\ pdT' = now
            /\ pdLast' = now
            /\ pdPops' = pops
            /\ pdLog' = Append(pdLog, now)
            /\ pdPc' = IF linked /\ Len(pops) >= Max(1, SPIKE_REQUIRED)
                       THEN "true" ELSE "recv"
    /\ pdMsgs' = pdMsgs + 1
    /\ UNCHANGED outsidePops

\* ws.recv() returns a message without logs, or one that does not parse:
\* continue.
PopRecvOther ==
    /\ pdPc = "recv"
    /\ pdT <= SPIKE_WINDOW_SEC
    /\ pdMsgs < MaxMsgs
    /\ \E d \in RecvDelays :
        /\ d <= Remaining(pdT)
        /\ pdT' = pdT + d
    /\ pdMsgs' = pdMsgs + 1
    /\ UNCHANGED <<pdPc, pdLast, pdPops, pdLog>>
    /\ UNCHANGED outsidePops

\* asyncio.TimeoutError after `remaining`: break, return False.
PopTimeout ==
    /\ pdPc = "recv"
    /\ pdT <= SPIKE_WINDOW_SEC
    /\ pdT' = pdT + Remaining(pdT)
    /\ pdPc' = "false"
    /\ UNCHANGED <<pdLast, pdPops, pdLog, pdMsgs>>
    /\ UNCHANGED outsidePops

\* The while-condition fails: return False.
PopWindowOver ==
    /\ pdPc = "recv"
    /\ pdT > SPIKE_WINDOW_SEC
    /\ pdPc' = "false"
    /\ UNCHANGED <<pdT, pdLast, pdPops, pdLog, pdMsgs>>
    /\ UNCHANGED outsidePops

\* ws.recv() raises (connection closed): the exception leaves the detector.
PopRecvRaises ==
    /\ pdPc = "recv"
    /\ pdT <= SPIKE_WINDOW_SEC
    /\ pdPc' = "raised"
    /\ UNCHANGED <<pdT, pdLast, pdPops, pdLog, pdMsgs>>
    /\ UNCHANGED outsidePops

-----------------------------------------------------------------------------
(***************************************************************************)
(* sniper.py, classic mode: coordinator, buy-attempt tasks, seller loop    *)
(***************************************************************************)

\* Times are in classic ticks of 0.1 s; the clock is clk, the buy-rate
\* bucket is limiter, with one token = BuyToken bucket units.

\* ENTRY_MAX_AGE_SECONDS = 60 s and EXIT_AFTER_SECONDS = 5 s (config.py:157-158)
ENTRY_MAX_AGE_SECONDS == 600
EXIT_AFTER_SECONDS == 50
\* SELL_RETRY_MAX_TRIES (config.py:168)
SELL_RETRY_MAX_TRIES == 5
\* asyncio.sleep(0.2) after a failed buy attempt (sniper.py:522)
BuyRetrySleep == 2
\* One token of TokenBucket(MAX_BUYS_PER_SEC = 0.5, burst = 1.0) refilling one
\* bucket unit per tick (config.py:257, sniper.py:450-451).
BuyToken == 20

\* Bounds of the classic harness: the clock while buying and while selling,
\* candidates evaluated, failed buy attempts per task.
MaxBuyTime == 60
MaxSellTime == 240
MaxCands == 3
MaxBuyFails == 1

Mints == {"mA", "mB"}

\* How far the clock moves between two steps.
TimeSteps == {20, 60}

\* time.time() - first_seen of a candidate when the coordinator evaluates it.
CandAges == {0, 600, 620}

\* SETTLE_BUFFER_SECONDS, default 0.5 s (sniper.py:246)
SETTLE_BUFFER_SECONDS == 5

\* The settlement buffer left out.
SettleBufNever(balance_seen) == 0

\* settle_buf = settle_buf_cfg if not balance_seen else 0.0
SettleBuf(balance_seen) == IF balance_seen THEN 0 ELSE SETTLE_BUFFER_SECONDS

SettleBuffers == {SettleBuf(seenBal) : seenBal \in BOOLEAN}

\* SELL_RETRY_SCHEDULE: the default (sniper.py:77) and a two-entry list set
\* through the environment.
DefaultSchedule == <<6, 13, 21, 30, 40>>
ShortSchedule == <<6, 13>>
RetrySchedules == {DefaultSchedule, ShortSchedule}

\* The retry delay read at a fixed index of the schedule.
SellRetryDelayFirst(sched, tries) == sched[1]

\* _sell_retry_delay(tries)
SellRetryDelay(sched, tries) ==
    IF tries <= 0 THEN sched[1]
    ELSE sched[Min(tries - 1, Len(sched) - 1) + 1]

\* A retry counter that only zero-balance failures advance.
NextTriesZeroOnly(tries, kind) ==
    IF kind \in {"zero", "balance"} THEN tries + 1 ELSE tries

\* `tries += 1` in each of the three failure branches of seller_loop: zero
\* balance (307), no sell quote (345), exception of the sell (365).
NextTries(tries, kind) == tries + 1

\* A put that leaves the intent in the queue twice.
SellQueuePutTwice(q, item) == Append(Append(q, item), item)

\* `await sell_queue.put({...})` on the unbounded asyncio.Queue (sniper.py:249,
\* 311, 349, 369)
SellQueuePut(q, item) == Append(q, item)

\* The retry test with <= for <.
MayRequeueInclusive(tries) == tries <= SELL_RETRY_MAX_TRIES

\* `if tries < SELL_RETRY_MAX_TRIES:` re-enqueue, else give up
MayRequeue(tries) == tries < SELL_RETRY_MAX_TRIES

\* The dedup test switched off.
AlreadySeenNever(s, mint) == FALSE

\* `if mint in seen: continue`
AlreadySeen(s, mint) == mint \in s

\* The buy task going round its loop again after a submitted swap.
AfterSnipeRetry(ok) == "sleep"

\* snipe_once returned: `return`; it raised: sleep 0.2 s and loop.
AfterSnipe(ok) == IF ok THEN "done" ELSE "sleep"

NoItem == [mint |-> "", sell_at |-> 0, tries |-> 0]

\* The bodies of the try statements with an `except Exception` clause in
\* _ensure_ata, seller_loop and attempt_buy_until_window: first and last line.
TryBodies == {<<178, 179>>, <<296, 301>>, <<323, 361>>, <<336, 337>>,
              <<517, 519>>}

\* The awaits of one sell or buy a failure comes from, by line: the account
\* creation, the balance read, the three quote calls, the swap build, the
\* send, and snipe_once as called by the buy-attempt task.
FaultLine == [ata |-> 179, balance |-> 296, noquote |-> 336, swap |-> 357,
              send |-> 358, snipe |-> 518]

\* The try around the sell left out.
CaughtButSell(line) ==
    \E t \in TryBodies \ {<<323, 361>>} : t[1] <= line /\ line <= t[2]

\* An exception raised at the line is caught by an enclosing try of its
\* function.
Caught(line) == \E t \in TryBodies : t[1] <= line /\ line <= t[2]

\* No buy-attempt task was created for the mint.
NoTask == [pc |-> "none", first |-> 0, attempt |-> 0, wake |-> 0,
           balance_seen |-> FALSE]

\* time passes while candidates are admitted and bought
BuyTick ==
    /\ \E d \in TimeSteps :
          /\ clk + d <= MaxBuyTime
          /\ clk' = clk + d
    /\ UNCHANGED <<limiter, limLog, jupLimiter, jupLog, jpc, jwake>>
    /\ UNCHANGED classicVars
    /\ UNCHANGED outsideClassic

\* time passes while the seller works
SellTick ==
    /\ \E d \in TimeSteps :
          /\ clk + d <= MaxSellTime
          /\ clk' = clk + d
    /\ UNCHANGED <<limiter, limLog, jupLimiter, jupLog, jpc, jwake>>
    /\ UNCHANGED classicVars
    /\ UNCHANGED outsideClassic

\* ENTRY_MAX_AGE_SLOTS, default 3 (sniper.py:464)
ENTRY_MAX_AGE_SLOTS == 3
\* The on-chain age gate with MINT_AGE_MIN_SECONDS = 1 and
\* MINT_AGE_MAX_SECONDS = 30 set in the environment (sniper.py:477-478); with
\* the defaults 0 and 0 the gate is skipped, as for an age of None.
TRUE_AGE_MIN_SECONDS == 10
TRUE_AGE_MAX_SECONDS == 300

\* No number: the slot check was skipped (slot 0 in the candidate, or getSlot
\* raised), the on-chain age is None.
NoValue == -1

\* slot_age = max(0, current_slot - slot_at_detection), or NoValue
SlotAges == {NoValue, 3, 4}
\* onchain_age in ticks, or NoValue
OnchainAges == {NoValue, 9, 10, 301}

\* `if slot_age > ENTRY_MAX_AGE_SLOTS: continue`
SlotTooOld(slotAge) == slotAge # NoValue /\ slotAge > ENTRY_MAX_AGE_SLOTS

\* The two `continue` branches of the on-chain age gate.
MintAgeRejects(onchain) ==
    /\ onchain # NoValue
    /\ \/ TRUE_AGE_MIN_SECONDS > 0 /\ onchain < TRUE_AGE_MIN_SECONDS
       \/ TRUE_AGE_MAX_SECONDS > 0 /\ onchain > TRUE_AGE_MAX_SECONDS

\* seen.add(mint) placed before the rate filter.
SeenAfterTakeAlways(s, mint, granted) == s \cup {mint}

\* `if not limiter.take(): continue` and then `seen.add(mint)`
SeenAfterTake(s, mint, granted) == IF granted THEN s \cup {mint} ELSE s

\* One pass of the coordinator's loop over a candidate for `mint`: the
\* slot-age filter, the on-chain age filter, dedup, limiter.take(),
\* seen.add(mint) and create_task(attempt_buy_until_window(mint, first_seen));
\* every rejection is a `continue`.  verdict names the branch taken.
CoordEval ==
    /\ nCands < MaxCands
    /\ nCands' = nCands + 1
    /\ \E mint \in Mints, slotAge \in SlotAges :
        IF SlotTooOld(slotAge)
        THEN /\ verdict' = "slot"
             /\ UNCHANGED <<limiter, seen, spawned, bt, dups>>
        ELSE \E onchain \in OnchainAges :
          IF MintAgeRejects(onchain)
          THEN /\ verdict' = "mintage"
               /\ UNCHANGED <<limiter, seen, spawned, bt, dups>>
          ELSE IF AlreadySeen(seen, mint)
          THEN /\ verdict' = "dup"
               /\ dups' = [dups EXCEPT ![mint] = @ + 1]
               /\ UNCHANGED <<limiter, seen, spawned, bt>>
          ELSE LET granted == TakeAdmits(limiter, clk, BuyToken)
               IN  /\ limiter' = TakeBucket(limiter, clk, BuyToken)
                   /\ seen' = SeenAfterTake(seen, mint, granted)
                   /\ IF granted
                      THEN /\ verdict' = "admitted"
                           /\ spawned' = [spawned EXCEPT ![mint] = @ + 1]
                           /\ \E age \in CandAges :
                                 bt' = [bt EXCEPT ![mint] =
                                          [NoTask EXCEPT !.pc = "loop",
                                                         !.first = clk - age]]
                      ELSE /\ verdict' = "rate"
                           /\ UNCHANGED <<spawned, bt>>
                   /\ UNCHANGED dups
    /\ UNCHANGED <<submitted, sellQ, slPc, slItem, schedule, sh>>
    /\ UNCHANGED <<clk, limLog, jupLimiter, jupLog, jpc, jwake>>
    /\ UNCHANGED outsideClassic

\* The window test passing whatever the age.
WindowOpenAlways(first, now) == TRUE

\* `while time.time() - first_seen_local <= ENTRY_MAX_AGE_SECONDS:`
WindowOpen(first, now) == now - first <= ENTRY_MAX_AGE_SECONDS

\* attempt_buy_until_window: the while-condition holds, attempt += 1 and
\* snipe_once is called.
BuyAttempt(m) ==
    /\ bt[m].pc = "loop"
    /\ WindowOpen(bt[m].first, clk)
    /\ bt' = [bt EXCEPT ![m].pc = "snipe", ![m].attempt = @ + 1]
    /\ UNCHANGED <<seen, spawned, submitted, sellQ, slPc, slItem, schedule, sh,
                   nCands, dups, verdict>>
    /\ UNCHANGED bucketVars
    /\ UNCHANGED outsideClassic

\* attempt_buy_until_window: the while-condition fails, the window expired.
BuyExpired(m) ==
    /\ bt[m].pc = "loop"
    /\ ~WindowOpen(bt[m].first, clk)
    /\ bt' = [bt EXCEPT ![m].pc = "expired"]
    /\ UNCHANGED <<seen, spawned, submitted, sellQ, slPc, slItem, schedule, sh,
                   nCands, dups, verdict>>
    /\ UNCHANGED bucketVars
    /\ UNCHANGED outsideClassic

\* snipe_once raises before its swap is sent (no usable quote, swap_tx or
\* send_serialized_tx failing): caught, sleep 0.2 s.
BuySnipeFails(m) ==
    /\ bt[m].pc = "snipe"
    /\ bt[m].attempt <= MaxBuyFails
    /\ bt' = [bt EXCEPT ![m].pc = IF Caught(FaultLine.snipe)
                                  THEN AfterSnipe(FALSE) ELSE "crashed",
                        ![m].wake = clk + BuyRetrySleep]
    /\ UNCHANGED <<seen, spawned, submitted, sellQ, slPc, slItem, schedule, sh,
                   nCands, dups, verdict>>
    /\ UNCHANGED bucketVars
    /\ UNCHANGED outsideClassic

\* snipe_once sends its swap, waits for the balance, puts the first
\* SellIntent on the sell queue and returns.
BuySnipeSubmits(m) ==
    /\ bt[m].pc = "snipe"
    /\ submitted' = [submitted EXCEPT ![m] = @ + 1]
    /\ \E seenBal \in BOOLEAN :
          /\ sellQ' = SellQueuePut(sellQ,
                         [mint |-> m,
                          sell_at |-> clk + EXIT_AFTER_SECONDS + SettleBuf(seenBal),
                          tries |-> 0])
          /\ bt' = [bt EXCEPT ![m].pc = AfterSnipe(TRUE),
                              ![m].wake = IF AfterSnipe(TRUE) = "sleep"
                                          THEN clk + BuyRetrySleep ELSE @,
                              ![m].balance_seen = seenBal]
    /\ UNCHANGED <<seen, spawned, slPc, slItem, schedule, sh, nCands, dups, verdict>>
    /\ UNCHANGED bucketVars
    /\ UNCHANGED outsideClassic

\* asyncio.sleep(0.2) is over: back to the while-condition.
BuyWake(m) ==
    /\ bt[m].pc = "sleep"
    /\ clk >= bt[m].wake
    /\ bt' = [bt EXCEPT ![m].pc = "loop"]
    /\ UNCHANGED <<seen, spawned, submitted, sellQ, slPc, slItem, schedule, sh,
                   nCands, dups, verdict>>
    /\ UNCHANGED bucketVars
    /\ UNCHANGED outsideClassic

\* seller_loop: item = await sell_queue.get(); sleep until item["sell_at"].
SellerGet ==
    /\ slPc = "get"
    /\ sellQ # <<>>
    /\ slItem' = Head(sellQ)
    /\ sellQ' = Tail(sellQ)
    /\ slPc' = "wait"
    /\ UNCHANGED <<seen, spawned, bt, submitted, schedule, sh, nCands, dups, verdict>>
    /\ UNCHANGED bucketVars
    /\ UNCHANGED outsideClassic

\* The sleep is over: _ensure_ata runs (the account exists, is created, or
\* its creation fails) and the balance check begins.
SellerStart ==
    /\ slPc = "wait"
    /\ clk >= slItem.sell_at
    /\ \E ataFails \in BOOLEAN :
          slPc' = IF ataFails /\ ~Caught(FaultLine.ata) THEN "dead" ELSE "work"
    /\ sh' = [sh EXCEPT ![slItem.mint].attempts = @ + 1]
    /\ UNCHANGED <<seen, spawned, bt, submitted, sellQ, slItem, schedule, nCands, dups, verdict>>
    /\ UNCHANGED bucketVars
    /\ UNCHANGED outsideClassic

\* The attempt fails: zero balance, the balance read raising (amount_in = 0,
\* the same branch), no sell quote after three tries, or an exception from
\* the swap build or the send.  tries += 1, then re-enqueue at
\* now() + _sell_retry_delay(tries) or give up, and `continue`.  An
\* exception no try catches ends seller_loop.
SellerFails ==
    /\ slPc = "work"
    /\ \E kind \in {"zero", "balance", "noquote", "swap", "send"} :
        LET m == slItem.mint
            tries == NextTries(slItem.tries, kind)
            at == clk + SellRetryDelay(schedule, tries)
            zero == kind \in {"zero", "balance"}
        IN  IF kind # "zero" /\ ~Caught(FaultLine[kind])
            THEN /\ slPc' = "dead"
                 /\ UNCHANGED <<sellQ, sh, slItem>>
            ELSE /\ slPc' = "get"
                 /\ slItem' = NoItem
                 /\ IF MayRequeue(tries)
                    THEN /\ sellQ' = SellQueuePut(sellQ, [mint |-> m, sell_at |-> at,
                                                          tries |-> tries])
                         /\ sh' = [sh EXCEPT ![m].requeues = @ + 1,
                                             ![m].zeroOnly = @ /\ zero]
                    ELSE /\ sh' = [sh EXCEPT ![m].abandoned = TRUE,
                                             ![m].zeroOnly = @ /\ zero]
                         /\ UNCHANGED sellQ
    /\ UNCHANGED <<seen, spawned, bt, submitted, schedule, nCands, dups, verdict>>
    /\ UNCHANGED bucketVars
    /\ UNCHANGED outsideClassic

\* The sell swap is sent: the intent is dropped.
SellerSells ==
    /\ slPc = "work"
    /\ sh' = [sh EXCEPT ![slItem.mint].sold = TRUE,
                        ![slItem.mint].zeroOnly = FALSE]
    /\ slPc' = "get"
    /\ slItem' = NoItem
    /\ UNCHANGED <<seen, spawned, bt, submitted, sellQ, schedule, nCands, dups, verdict>>
    /\ UNCHANGED bucketVars
    /\ UNCHANGED outsideClassic

\* The times the running tasks wait for: the end of a buy task's 0.2 s
\* sleep, the first tick past its entry window, the sell_at of the item the
\* seller holds.
Timers ==
    {bt[m].wake : m \in {x \in Mints : bt[x].pc = "sleep"}}
      \cup {bt[m].first + ENTRY_MAX_AGE_SECONDS + 1 :
               m \in {x \in Mints : bt[x].pc \in {"loop", "sleep"}}}
      \cup (IF slPc = "wait" THEN {slItem.sell_at} ELSE {})

\* Bound of the clock when coordinator, buy tasks and seller run together.
MaxTogetherTime == 64

\* Time passes until the next of these times.
EventTick ==
    /\ \E t \in Timers :
          /\ t > clk
          /\ t <= MaxTogetherTime
          /\ \A u \in Timers : u > clk => t <= u
          /\ clk' = t
    /\ UNCHANGED <<limiter, limLog, jupLimiter, jupLog, jpc, jwake>>
    /\ UNCHANGED classicVars
    /\ UNCHANGED outsideClassic

-----------------------------------------------------------------------------
(***************************************************************************)
(* token_monitor.py and sniper.instant_buy: a seller_loop per buy          *)
(***************************************************************************)

\* Bounds of the monitor harness: messages handled and the clock.
MaxInstantMsgs == 2
MaxInstantTime == 120

LoopIds == 1 .. MaxInstantMsgs

\* time passes while the monitor and its seller loops run
InstantTick ==
    /\ \E d \in TimeSteps :
          /\ clk + d <= MaxInstantTime
          /\ clk' = clk + d
    /\ UNCHANGED <<limiter, limLog, jupLimiter, jupLog, jpc, jwake>>
    /\ UNCHANGED <<classicVars, instantVars>>
    /\ UNCHANGED outsideInstant

\* monitor_pumpfun_tokens receives a message that leads to no buy: no
\* "result"/"value", no creation marker, no 44-character word after a log
\* line holding "mint", or check_rug_pull(mint) true.
MonitorSkips ==
    /\ ibPc.at = "recv"
    /\ ibPc.msgs < MaxInstantMsgs
    /\ ibPc' = [ibPc EXCEPT !.msgs = @ + 1]
    /\ UNCHANGED ibLoops
    /\ UNCHANGED <<bucketVars, classicVars>>
    /\ UNCHANGED outsideInstant

\* instant_buy with a mint: snipe_once raises; nothing catches it in
\* instant_buy or in monitor_pumpfun_tokens, whose loop ends.
MonitorBuyRaises ==
    /\ ibPc.at = "recv"
    /\ ibPc.msgs < MaxInstantMsgs
    /\ ibPc' = [at |-> "crashed", msgs |-> ibPc.msgs + 1]
    /\ UNCHANGED ibLoops
    /\ UNCHANGED <<bucketVars, classicVars>>
    /\ UNCHANGED outsideInstant

\* instant_buy with a mint: sell_queue = asyncio.Queue(); snipe_once sends the
\* swap and puts the SellIntent on that queue; then
\* asyncio.create_task(seller_loop(wallet, jup, sell_queue)).
MonitorBuys ==
    /\ ibPc.at = "recv"
    /\ ibPc.msgs < MaxInstantMsgs
    /\ ibPc' = [ibPc EXCEPT !.msgs = @ + 1]
    /\ \E m \in Mints, buf \in SettleBuffers :
          ibLoops' = Append(ibLoops,
                        [pc |-> "get",
                         q |-> <<[mint |-> m,
                                  sell_at |-> clk + EXIT_AFTER_SECONDS + buf,
                                  tries |-> 0]>>,
                         item |-> NoItem])
    /\ UNCHANGED <<bucketVars, classicVars>>
    /\ UNCHANGED outsideInstant

\* seller_loop number i: item = await sell_queue.get()
InstantSellerGet(i) ==
    /\ i \in DOMAIN ibLoops
    /\ ibLoops[i].pc = "get"
    /\ ibLoops[i].q # <<>>
    /\ ibLoops' = [ibLoops EXCEPT ![i] = [pc |-> "wait", q |-> Tail(@.q),
                                          item |-> Head(@.q)]]
    /\ UNCHANGED ibPc
    /\ UNCHANGED <<bucketVars, classicVars>>
    /\ UNCHANGED outsideInstant

\* seller_loop number i: the sleep until sell_at is over, the balance check
\* begins.
InstantSellerStart(i) ==
    /\ i \in DOMAIN ibLoops
    /\ ibLoops[i].pc = "wait"
    /\ clk >= ibLoops[i].item.sell_at
    /\ ibLoops' = [ibLoops EXCEPT ![i].pc = "work"]
    /\ UNCHANGED ibPc
    /\ UNCHANGED <<bucketVars, classicVars>>
    /\ UNCHANGED outsideInstant

\* seller_loop number i: the attempt fails; re-enqueue on its own queue or
\* give up.
InstantSellerFails(i) ==
    /\ i \in DOMAIN ibLoops
    /\ ibLoops[i].pc = "work"
    /\ LET it == ibLoops[i].item
           tries == it.tries + 1
           again == [mint |-> it.mint,
                     sell_at |-> clk + SellRetryDelay(schedule, tries),
                     tries |-> tries]
       IN  ibLoops' = [ibLoops EXCEPT ![i] =
                         [pc |-> "get",
                          q |-> IF MayRequeue(tries) THEN Append(@.q, again)
                                ELSE @.q,
                          item |-> NoItem]]
    /\ UNCHANGED ibPc
    /\ UNCHANGED <<bucketVars, classicVars>>
    /\ UNCHANGED outsideInstant

\* seller_loop number i: the sell swap is sent.
InstantSellerSells(i) ==
    /\ i \in DOMAIN ibLoops
    /\ ibLoops[i].pc = "work"
    /\ ibLoops' = [ibLoops EXCEPT ![i] = [pc |-> "get", q |-> @.q, item |-> NoItem]]
    /\ UNCHANGED ibPc
    /\ UNCHANGED <<bucketVars, classicVars>>
    /\ UNCHANGED outsideInstant

-----------------------------------------------------------------------------
(***************************************************************************)
(* sniper.snipe_once: the quote loop, the swap and the send                *)
(***************************************************************************)

\* priceImpactPct is in thousandths, USD amounts in whole dollars.

\* BUY_USD (config.py:155)
BUY_USD == 10
\* The hard ceiling 0.95 of _looks_liquid_enough (sniper.py:151)
PriceImpactCeiling == 950
\* `for attempt in range(1, 4)` (sniper.py:193)
QuoteAttempts == 3

\* MIN_LIQUIDITY_USD: the default 0.0 (config.py:175) and a floor of 100 USD.
LiquidityFloors == {0, 100}

\* What jup.quote does: it raises, or returns a dict that is empty, or has
\* no priceImpactPct (or null), or one float() cannot parse, or "nan", or a
\* number.
QuoteResponses ==
    {[tag |-> t, v |-> 0] : t \in {"raise", "empty", "none", "bad", "nan"}}
        \cup {[tag |-> "num", v |-> x] : x \in {-5, 0, 100, 101, 950, 951}}

NoQuote == [tag |-> "unset", v |-> 0]

\* The ceiling test switched off.
LooksLiquidAlways(q) == TRUE

\* _looks_liquid_enough(quote): True when priceImpactPct is None or float()
\* raises on it, else float(pi) <= 0.95 (False for nan).
LooksLiquidEnough(q) ==
    CASE q.tag \in {"empty", "none", "bad"} -> TRUE
      [] q.tag = "nan" -> FALSE
      [] OTHER -> q.v <= PriceImpactCeiling

\* est_liq < float(MIN_LIQUIDITY_USD), with est_liq =
\* _estimate_liquidity_usd(q, BUY_USD): infinite when pi <= 0 or when float()
\* raises, else BUY_USD / max(pi, 1e-6); a nan estimate is below nothing.
BelowLiquidityFloor(q, floor) ==
    /\ q.tag = "num"
    /\ q.v > 0
    /\ BUY_USD * 1000 < floor * q.v

\* `if not quote:` is also true of an empty dict.
Falsy(q) == q.tag \in {"unset", "empty"}

\* One pass of the quote loop: jup.quote raises, or the quote fails one of
\* the two tests (last_err set, sleep 0.2 s, next attempt), or it is kept and
\* the loop is left.  When the loop is over `if not quote: raise`.
SnipeQuote ==
    /\ sqPc = "quote"
    /\ \E resp \in QuoteResponses :
         LET kept == /\ resp.tag # "raise"
                     /\ LooksLiquidEnough(resp)
                     /\ ~BelowLiquidityFloor(resp, sqFloor)
             quote == IF kept THEN resp ELSE NoQuote
             over == kept \/ Len(sqLog) + 1 = QuoteAttempts
         IN  /\ sqLog' = Append(sqLog, resp)
             /\ sqQuote' = quote
             /\ sqPc' = IF ~over THEN "quote"
                        ELSE IF Falsy(quote) THEN "raised" ELSE "swap"
    /\ UNCHANGED <<sqFloor, sqSwaps>>
    /\ UNCHANGED outsideQuote

\* tx_b64 = await jup.swap_tx(quote, ...): built, or it raises.
SnipeSwap ==
    /\ sqPc = "swap"
    /\ sqSwaps' = sqSwaps + 1
    /\ sqPc' \in {"send", "raised"}
    /\ UNCHANGED <<sqFloor, sqLog, sqQuote>>
    /\ UNCHANGED outsideQuote

\* sig = await wallet.send_serialized_tx(tx_b64): sent, or it raises.
SnipeSend ==
    /\ sqPc = "send"
    /\ sqPc' \in {"sent", "raised"}
    /\ UNCHANGED <<sqFloor, sqLog, sqQuote, sqSwaps>>
    /\ UNCHANGED outsideQuote

-----------------------------------------------------------------------------
(***************************************************************************)
(* price.get_sol_usd_price and s1_stairs._get_sol_usd_cached               *)
(***************************************************************************)

\* Prices are in cents, times in seconds.

\* `return 150.0  # fallback` (price.py:19)
FallbackPrice == 15000
\* max(0.01, ...) (s1_stairs.py:88-89)
PriceFloor == 1
\* SOL_PRICE_TTL_SEC (config.py:337)
SOL_PRICE_TTL_SEC == 15

\* Bounds of the oracle harness: the clock and the calls made.
MaxPriceTime == 45
MaxPriceCalls == 4

\* How far the clock moves between two calls.
PriceSteps == {5, 15}

\* What the upstream request does: a status other than 200; the connection
\* fails; the 3 s timeout passes; the 200 body is no JSON; it is JSON without
\* "outAmount"; "outAmount" is no integer; or it is a price.
UpstreamFailures == {"non200", "neterr", "timeout", "badjson", "nokey", "badamount"}
UpstreamPrices == {0, 14000, 16000}
UpstreamResponses ==
    {[tag |-> t, v |-> 0] : t \in UpstreamFailures}
        \cup {[tag |-> "ok", v |-> x] : x \in UpstreamPrices}

NoResponse == [tag |-> "nocall", v |-> 0]
NoResult == [kind |-> "none", v |-> 0]
Raised == [kind |-> "raised", v |-> 0]
Returned(v) == [kind |-> "value", v |-> v]

\* get_sol_usd_price(): the fallback for a status other than 200 only; the
\* exceptions of the session, of r.json(), of j["outAmount"] and of int()
\* are not caught.
GetSolUsdPrice(resp) ==
    CASE resp.tag = "ok" -> Returned(resp.v)
      [] resp.tag = "non200" -> Returned(FallbackPrice)
      [] OTHER -> Raised

\* time passes
PriceTick ==
    /\ \E d \in PriceSteps :
          /\ prClock + d <= MaxPriceTime
          /\ prClock' = prClock + d
    /\ UNCHANGED <<prCache, prResp, prResult, prCalls>>
    /\ UNCHANGED outsidePrice

\* A caller of sniper.py awaits get_sol_usd_price() (sniper.py:167, 186, 329).
PriceCall ==
    /\ prCalls < MaxPriceCalls
    /\ prCalls' = prCalls + 1
    /\ \E resp \in UpstreamResponses :
          /\ prResp' = resp
          /\ prResult' = GetSolUsdPrice(resp)
    /\ UNCHANGED <<prClock, prCache>>
    /\ UNCHANGED outsidePrice

\* _get_sol_usd_cached(): a cache entry younger than the TTL is returned
\* without a request; else get_sol_usd_price() is awaited and its value,
\* floored, is stored; when it raises the cache is left as it was.
PriceCallCached ==
    /\ prCalls < MaxPriceCalls
    /\ prCalls' = prCalls + 1
    /\ IF prClock - prCache.t < SOL_PRICE_TTL_SEC
       THEN /\ prResp' = NoResponse
            /\ prResult' = Returned(Max(PriceFloor, prCache.v))
            /\ UNCHANGED prCache
       ELSE \E resp \in UpstreamResponses :
              LET got == GetSolUsdPrice(resp)
                  v == Max(PriceFloor, got.v)
              IN  /\ prResp' = resp
                  /\ IF got.kind = "raised"
                     THEN /\ prResult' = Raised
                          /\ UNCHANGED prCache
                     ELSE /\ prResult' = Returned(v)
                          /\ prCache' = [t |-> prClock, v |-> v]
    /\ UNCHANGED prClock
    /\ UNCHANGED outsidePrice

-----------------------------------------------------------------------------
(***************************************************************************)
(* pool_watcher.raydium_new_pool_stream                                    *)
(***************************************************************************)

\* Bounds of the watcher harness: messages received, connections opened.
MaxWatcherMsgs == 3
MaxConnects == 2

PUMPFUN_PROGRAM_ID == "pump"

\* WATCH_PROGRAM_IDS: empty, the launch program alone, or with another one.
WatchLists == {<<>>, <<PUMPFUN_PROGRAM_ID>>, <<PUMPFUN_PROGRAM_ID, "ray">>}

\* The addresses met in logs and transactions; SOL_MINT is on the skip list.
Addresses == {"tA", "tB", "SOL"}
SKIP_LIST == {"SOL"}
NoAddress == "none"

\* FORCE_TOKEN_MINT: unset, or a token address.
ForcedMints == {NoAddress, "tA"}

\* What ADDRESS_RE.findall gives on the log lines, after the length filter,
\* in order.
CandLists == {<<>>, <<"tA">>, <<"tB", "tA">>, <<"SOL", "tB">>, <<"tA", "tA">>}

\* A frame that is no JSON, a JSON message that is no logsNotification, a
\* notification without signature or without logs, and notifications with
\* value.programId absent ("none") or present, with or without a creation
\* marker in " ".join(logs).
WatcherMessages ==
    {[kind |-> k, pid |-> NoAddress, marker |-> FALSE, cands |-> <<>>] :
        k \in {"garbage", "other", "nosig"}}
      \cup {[kind |-> "log", pid |-> p, marker |-> mk, cands |-> cs] :
              p \in {NoAddress, PUMPFUN_PROGRAM_ID, "ray"},
              mk \in BOOLEAN, cs \in CandLists}

NoMessage == [kind |-> "", pid |-> NoAddress, marker |-> FALSE, cands |-> <<>>]

\* The gate passing on the markers alone.
PumpfunMarkersOnly(pid, marker, watch) == marker

\* _pumpfun_creation_only(program_id, logs): with a program id, it must be
\* the launch program and a marker must be in the text; without one, the
\* markers decide if WATCH_PROGRAM_IDS is exactly [PUMPFUN_PROGRAM_ID].
PumpfunCreationOnly(pid, marker, watch) ==
    IF pid # NoAddress
    THEN pid = PUMPFUN_PROGRAM_ID /\ marker
    ELSE /\ Len(watch) = 1
         /\ watch[1] = PUMPFUN_PROGRAM_ID
         /\ marker

\* The duplicate test left out.
FreshIgnoringSeen(s, cand) == cand \notin SKIP_LIST

\* `if cand in SKIP_LIST or cand in seen: continue`
Fresh(s, cand) == cand \notin SKIP_LIST /\ cand \notin s

\* The enqueue loop over the candidates of one message: the set seen, the
\* puts per address and the duplicates skipped, after the first n candidates.
RECURSIVE EnqueueAll(_, _, _, _)
EnqueueAll(cands, s, puts, dup) ==
    IF cands = <<>> THEN [seen |-> s, puts |-> puts, dup |-> dup]
    ELSE LET c == Head(cands)
         IN  IF Fresh(s, c)
             THEN EnqueueAll(Tail(cands), s \cup {c},
                             [puts EXCEPT ![c] = @ + 1], dup)
             ELSE EnqueueAll(Tail(cands), s, puts,
                             IF c \in s THEN dup + 1 ELSE dup)

\* raydium_new_pool_stream starts: the forced mint, if any, is put on the
\* queue; with no program to watch the function returns.
WatcherStart ==
    /\ wPc = "start"
    /\ wPuts' = IF wForce # NoAddress THEN [wPuts EXCEPT ![wForce] = @ + 1]
                ELSE wPuts
    /\ wPc' = IF wWatch = <<>> THEN "returned" ELSE "connecting"
    /\ UNCHANGED <<wWatch, wForce, wSeen, wPending, wMsg, wMsgs, wConns, wBeats, wDups,
                   wWait>>
    /\ UNCHANGED outsideWatcher

\* The sleep of the except branch, in ms.
RECONNECT_WAIT_MS == 500

\* A wait that doubles from one error to the next.
ReconnectWaitDoubling(prev) ==
    IF prev = 0 THEN RECONNECT_WAIT_MS ELSE Min(2 * prev, 8 * RECONNECT_WAIT_MS)

\* `await asyncio.sleep(0.5)`: whatever the wait before was.
ReconnectWait(prev) == RECONNECT_WAIT_MS

\* `hb = asyncio.create_task(heartbeat())` after the subscriptions of a
\* connection (pool_watcher.py:199): one more task running heartbeat(), whose
\* `while True:` loop (166-168) has no exit.
HeartbeatsAfterConnect(n) == n + 1

\* The connection is lost: the `async with` block and the except branch
\* (187-269) hold no hb.cancel(), the heartbeat tasks stay alive.
HeartbeatsAfterDrop(n) == n

\* websockets.connect and the subscriptions: done, or an exception takes the
\* loop to its except branch and the sleep.  wConns counts the connections
\* up to MaxConnects and stays there.
WatcherConnect ==
    /\ wPc = "connecting"
    /\ wConns' = Min(wConns + 1, MaxConnects)
    /\ \/ /\ wPc' = "listening"
          /\ wBeats' = Min(HeartbeatsAfterConnect(wBeats), MaxConnects)
          /\ UNCHANGED wWait
       \/ /\ wPc' = "backoff"
          /\ wWait' = ReconnectWait(wWait)
          /\ UNCHANGED wBeats
    /\ UNCHANGED <<wWatch, wForce, wSeen, wPuts, wPending, wMsg, wMsgs, wDups>>
    /\ UNCHANGED outsideWatcher

\* ws.recv() raises: the connection is lost, the except branch sleeps.
WatcherDrop ==
    /\ wPc = "listening"
    /\ wPc' = "backoff"
    /\ wWait' = ReconnectWait(wWait)
    /\ wBeats' = HeartbeatsAfterDrop(wBeats)
    /\ UNCHANGED <<wWatch, wForce, wSeen, wPuts, wPending, wMsg, wMsgs, wConns,
                   wDups>>
    /\ UNCHANGED outsideWatcher

\* asyncio.sleep(0.5) is over: `continue`, connect again.
WatcherReconnect ==
    /\ wPc = "backoff"
    /\ wPc' = "connecting"
    /\ UNCHANGED <<wWatch, wForce, wSeen, wPuts, wPending, wMsg, wMsgs, wConns, wBeats,
                   wDups, wWait>>
    /\ UNCHANGED outsideWatcher

\* One pass of the receive loop: parse, the logsNotification test, the
\* signature and logs test, the creation gate, the candidates of the log
\* text enqueued unless skipped or seen, and the transaction fallback task
\* created when nothing was enqueued.
WatcherRecv ==
    /\ wPc = "listening"
    /\ wMsgs < MaxWatcherMsgs
    /\ wMsgs' = wMsgs + 1
    /\ \E msg \in WatcherMessages :
         /\ wMsg' = msg
         /\ IF msg.kind # "log" \/ ~PumpfunCreationOnly(msg.pid, msg.marker, wWatch)
            THEN UNCHANGED <<wSeen, wPuts, wPending, wDups>>
            ELSE LET r == EnqueueAll(msg.cands, wSeen, wPuts, wDups.log)
                 IN  /\ wSeen' = r.seen
                     /\ wPuts' = r.puts
                     /\ wDups' = [wDups EXCEPT !.log = r.dup]
                     /\ wPending' = IF r.puts = wPuts THEN wPending + 1
                                    ELSE wPending
    /\ UNCHANGED <<wWatch, wForce, wPc, wConns, wBeats, wWait>>
    /\ UNCHANGED outsideWatcher

\* One _tx_fallback_task runs: _extract_mint_from_tx gives no mint (or an
\* exception is swallowed), or a mint that is enqueued unless skipped or seen.
FallbackRun ==
    /\ wPending > 0
    /\ wPending' = wPending - 1
    /\ \E mint \in Addresses \cup {NoAddress} :
         IF mint = NoAddress
         THEN UNCHANGED <<wSeen, wPuts, wDups>>
         ELSE LET r == EnqueueAll(<<mint>>, wSeen, wPuts, wDups.tx)
              IN  /\ wSeen' = r.seen
                  /\ wPuts' = r.puts
                  /\ wDups' = [wDups EXCEPT !.tx = r.dup]
    /\ UNCHANGED <<wWatch, wForce, wPc, wMsg, wMsgs, wConns, wBeats, wWait>>
    /\ UNCHANGED outsideWatcher

-----------------------------------------------------------------------------
(***************************************************************************)
(* Cancellation: the finally blocks of sniper.coordinator and              *)
(* s1_stairs.run_stairs_for_mint                                           *)
(***************************************************************************)

\* Bound of the cleanup harness: loop passes before the cancellation.
MaxPasses == 3

CleanupSites == {"coordinator", "stairs"}

\* How an awaited cleanup call ends: it returns, it raises an Exception, or
\* it raises asyncio.CancelledError, a BaseException that is no Exception.
Signals == {"ok", "exception", "cancelled"}

\* What seller_loop is doing: awaiting sell_queue.get(), sleeping until
\* sell_at, working on an item, or ended by an exception of its own.
SellerStates == {"get", "wait", "work", "failed"}

\* The coordinator's cleanup steps sit in `try: ... except Exception: pass`
\* (and contextlib.suppress(Exception)); those of run_stairs_for_mint in
\* `try: ... except: pass`.
Swallows(site, sig) ==
    IF site = "coordinator" THEN sig = "exception" ELSE TRUE

\* `await seller_task` after seller_task.cancel(): a running seller_loop is
\* cancelled and the await raises CancelledError; one that had ended by an
\* exception raises that exception.
AwaitCancelled(sellerState) ==
    IF sellerState = "failed" THEN "exception" ELSE "cancelled"

\* The steps of the finally block, in order.
CleanupSteps(site) ==
    IF site = "coordinator" THEN <<"seller", "jup", "wallet">>
    ELSE <<"jup", "wallet">>

\* The step after the n-th, "done" after the last.
StepAfter(site, n) ==
    IF n < Len(CleanupSteps(site)) THEN CleanupSteps(site)[n + 1] ELSE "done"

\* One pass of the task's loop before any cancellation; seller_loop moves on.
CleanupPass ==
    /\ cuPc = "loop"
    /\ cuPasses < MaxPasses
    /\ cuPasses' = cuPasses + 1
    /\ cuSeller' \in (IF cuSite = "coordinator" THEN SellerStates
                      ELSE {cuSeller})
    /\ UNCHANGED <<cuSite, cuPc, cuLog, cuClosed>>
    /\ UNCHANGED outsideCleanup

\* The task is cancelled at an await of its loop (the coordinator logs and
\* re-raises), or the loop ends: the finally block begins.
CleanupBegins ==
    /\ cuPc = "loop"
    /\ cuPc' = StepAfter(cuSite, 0)
    /\ UNCHANGED <<cuSite, cuSeller, cuPasses, cuLog, cuClosed>>
    /\ UNCHANGED outsideCleanup

\* seller_task.cancel(); with contextlib.suppress(Exception): await seller_task
CleanupSeller ==
    /\ cuPc = "seller"
    /\ LET sig == AwaitCancelled(cuSeller)
       IN  /\ cuLog' = Append(cuLog, [step |-> "seller", sig |-> sig])
           /\ cuPc' = IF Swallows(cuSite, sig) THEN StepAfter(cuSite, 1)
                      ELSE "escaped"
    /\ cuSeller' = IF cuSeller = "failed" THEN "failed" ELSE "cancelled"
    /\ UNCHANGED <<cuSite, cuPasses, cuClosed>>
    /\ UNCHANGED outsideCleanup

\* await jup.close() or await wallet.close() inside its try: the session is
\* closed, or the call raises and the handler swallows it or not.
CleanupClose(step) ==
    /\ cuPc = step
    /\ step \in {"jup", "wallet"}
    /\ \E sig \in Signals :
         /\ cuLog' = Append(cuLog, [step |-> step, sig |-> sig])
         /\ cuClosed' = IF sig = "ok" THEN cuClosed \cup {step} ELSE cuClosed
         /\ cuPc' = IF sig = "ok" \/ Swallows(cuSite, sig)
                    THEN StepAfter(cuSite, Len(cuLog) + 1)
                    ELSE "escaped"
    /\ UNCHANGED <<cuSite, cuSeller, cuPasses>>
    /\ UNCHANGED outsideCleanup

-----------------------------------------------------------------------------
(***************************************************************************)
(* main._stairs_dispatcher and the entry of s1_stairs.run_stairs_for_mint  *)
(***************************************************************************)

\* Times are in ticks of 0.5 s; TokenBucket(MAX_BUYS_PER_SEC = 0.5, 1.0)
\* refills one bucket unit per tick and holds one token of TokenUnit units.

\* Bounds of the dispatcher harness: the clock and the tasks created.
MaxDispatchTime == 3
MaxStarts == 3

StairsMints == {"s1", "s2"}

\* STAIRS_MAX_CONCURRENT as configured.
ConcurrencyConfigs == {0, 1, 2}

\* asyncio.Semaphore(max(1, int(STAIRS_MAX_CONCURRENT)))
Slots(cfg) == Max(1, cfg)

\* What the dispatcher takes from the queue: a dict with a mint, or one
\* whose mint is missing or empty.
NoMint == ""

NoBucket == [rate |-> 0, capacity |-> 0, tokens |-> 0, updated |-> 0]

\* No run_stairs_for_mint task for the mint.
NoStairs == [pc |-> "none", bucket |-> NoBucket]

\* The semaphore released only when the task returns.
SemAfterEndReturnOnly(sem, how) == IF how = "return" THEN sem + 1 ELSE sem

\* _runner: `finally: active.discard(mint); sem.release()`, however
\* run_stairs_for_mint ended.
SemAfterEnd(sem, how) == sem + 1

\* The tasks created and not yet ended.
RunningStairs == {m \in StairsMints : dTask[m].pc # "none"}

\* sem.acquire() returned: active.add(mint); create_task(_runner(mint)).
Dispatched(m) ==
    /\ dSem' = dSem - 1
    /\ dActive' = dActive \cup {m}
    /\ dTask' = [dTask EXCEPT ![m] = [NoStairs EXCEPT !.pc = "created"]]
    /\ dStarts' = dStarts + 1

\* One pass of the dispatcher's loop: a candidate without mint or with an
\* active mint is dropped; else sem.acquire(), which returns at once when a
\* slot is free and the task is created, and blocks when none is.
DispatchGet ==
    /\ dPc = "get"
    /\ dStarts < MaxStarts
    /\ \E mint \in StairsMints \cup {NoMint} :
         IF mint = NoMint \/ mint \in dActive
         THEN UNCHANGED <<dPc, dHeld, dSem, dActive, dTask, dStarts, dWaited>>
         ELSE IF dSem > 0
         THEN /\ Dispatched(mint)
              /\ UNCHANGED <<dPc, dHeld, dWaited>>
         ELSE /\ dPc' = "acquire"
              /\ dHeld' = mint
              /\ dWaited' = TRUE
              /\ UNCHANGED <<dSem, dActive, dTask, dStarts>>
    /\ UNCHANGED <<dCfg, dDynamic, dClk, dBuys, dLastEnd>>
    /\ UNCHANGED outsideDispatch

\* The dispatcher waits in sem.acquire(); a slot is free: it goes on.
DispatchAcquire ==
    /\ dPc = "acquire"
    /\ dSem > 0
    /\ Dispatched(dHeld)
    /\ dPc' = "get"
    /\ dHeld' = NoMint
    /\ UNCHANGED <<dCfg, dDynamic, dClk, dBuys, dLastEnd, dWaited>>
    /\ UNCHANGED outsideDispatch

\* run_stairs_for_mint begins: Wallet(), Jupiter() and a TokenBucket of its
\* own, full; then it waits for the step pattern.
StairsBegin(m) ==
    /\ dTask[m].pc = "created"
    /\ dTask' = [dTask EXCEPT ![m] = [pc |-> "watch",
                                      bucket |-> NewBucket(1, 1, dClk)]]
    /\ UNCHANGED <<dCfg, dDynamic, dPc, dHeld, dSem, dActive, dClk, dBuys,
                   dStarts, dLastEnd, dWaited>>
    /\ UNCHANGED outsideDispatch

\* The pattern was seen: the task goes on to limiter.take().
StairsPattern(m) ==
    /\ dTask[m].pc = "watch"
    /\ dTask' = [dTask EXCEPT ![m].pc = "take"]
    /\ UNCHANGED <<dCfg, dDynamic, dPc, dHeld, dSem, dActive, dClk, dBuys,
                   dStarts, dLastEnd, dWaited>>
    /\ UNCHANGED outsideDispatch

\* limiter.take() and what follows.  Dynamic-bag mode: a refusal costs a
\* 0.2 s sleep and dynamic_bag_round is called all the same.  Milestone
\* mode: a refusal is `sleep(0.2); continue`, a grant calls
\* milestone_scalp_round.  Either round begins with buy_once.
StairsTake(m) ==
    /\ dTask[m].pc = "take"
    /\ LET granted == TakeAdmits(dTask[m].bucket, dClk, TokenUnit)
           after == TakeBucket(dTask[m].bucket, dClk, TokenUnit)
           buys == granted \/ dDynamic
       IN  /\ dTask' = [dTask EXCEPT ![m].bucket = after,
                                     ![m].pc = IF buys THEN "round" ELSE "take"]
           /\ dBuys' = IF buys THEN Append(dBuys, dClk) ELSE dBuys
           /\ ~buys => after # dTask[m].bucket
    /\ UNCHANGED <<dCfg, dDynamic, dPc, dHeld, dSem, dActive, dClk, dStarts,
                   dLastEnd, dWaited>>
    /\ UNCHANGED outsideDispatch

\* A milestone round returned without a loss and the task re-enters: back to
\* limiter.take().
StairsReenter(m) ==
    /\ dTask[m].pc = "round"
    /\ ~dDynamic
    /\ dTask' = [dTask EXCEPT ![m].pc = "take"]
    /\ UNCHANGED <<dCfg, dDynamic, dPc, dHeld, dSem, dActive, dClk, dBuys,
                   dStarts, dLastEnd, dWaited>>
    /\ UNCHANGED outsideDispatch

\* run_stairs_for_mint ends: it returns (no pattern, the round or the loop
\* over), raises, or is cancelled; _runner's finally block runs.
StairsEnd(m) ==
    /\ dTask[m].pc \in {"created", "watch", "take", "round"}
    /\ \E how \in {"return", "exception", "cancelled"} :
         /\ how = "return" => dTask[m].pc \in {"watch", "round"}
         /\ dSem' = SemAfterEnd(dSem, how)
         /\ dLastEnd' = how
    /\ dActive' = dActive \ {m}
    /\ dTask' = [dTask EXCEPT ![m] = NoStairs]
    /\ UNCHANGED <<dCfg, dDynamic, dPc, dHeld, dClk, dBuys, dStarts, dWaited>>
    /\ UNCHANGED outsideDispatch

\* time passes
DispatchTick ==
    /\ dClk < MaxDispatchTime
    /\ dClk' = dClk + 1
    /\ UNCHANGED <<dCfg, dDynamic, dPc, dHeld, dSem, dActive, dTask, dBuys,
                   dStarts, dLastEnd, dWaited>>
    /\ UNCHANGED outsideDispatch

-----------------------------------------------------------------------------
(***************************************************************************)
(* s1_stairs.py: the re-entry loop of run_stairs_for_mint                  *)
(***************************************************************************)

\* Times are in ticks of 0.5 s, as in the dispatcher.

\* Bounds of the re-entry harness.
MaxReentryTime == 10
MaxRounds == 3

\* The PnL in lamports of a milestone round, by sign.
Pnls == {-1, 0, 1}

\* The loop with its `if pnl < 0:` test left out.
AfterRoundNoLossTest(pnl, needsPop, reenter) ==
    IF needsPop THEN "gate"
    ELSE IF reenter THEN "cooldown" ELSE "done"

\* Where the loop goes when milestone_scalp_round has returned pnl: the
\* blacklist sleep and break, the wait for the next pop, the cooldown
\* sleep before the next pass, or break.
AfterRound(pnl, needsPop, reenter) ==
    IF pnl < 0 THEN "blacklist"
    ELSE IF needsPop THEN "gate"
    ELSE IF reenter THEN "cooldown" ELSE "done"

\* `if not ok_next: break`, then `if not SCALP_REENTER_UNTIL_LOSS: break`.
AfterGate(ok, reenter) == IF ok /\ reenter THEN "cooldown" ELSE "done"

\* `if not limiter.take(): sleep(0.2); continue`, else the round is called.
ReentryTake ==
    /\ rnPc = "take"
    /\ Len(rnLog) < MaxRounds
    /\ LET granted == TakeAdmits(rnBucket, rnClk, TokenUnit)
           after == TakeBucket(rnBucket, rnClk, TokenUnit)
       IN  /\ rnBucket' = after
           /\ rnPc' = IF granted THEN "round" ELSE "take"
           /\ rnLog' = IF granted
                       THEN Append(rnLog, [pnl |-> 0, gate |-> "running"])
                       ELSE rnLog
           /\ ~granted => after # rnBucket
    /\ UNCHANGED <<rnReenter, rnNeedsPop, rnClk>>
    /\ UNCHANGED outsideReentry

\* milestone_scalp_round returns its PnL.
ReentryRoundReturns ==
    /\ rnPc = "round"
    /\ \E pnl \in Pnls :
          /\ rnLog' = [rnLog EXCEPT ![Len(rnLog)] =
                                      [pnl |-> pnl, gate |-> "none"]]
          /\ rnPc' = AfterRound(pnl, rnNeedsPop, rnReenter)
    /\ UNCHANGED <<rnReenter, rnNeedsPop, rnBucket, rnClk>>
    /\ UNCHANGED outsideReentry

\* milestone_scalp_round raises: the task ends in its finally block.
ReentryRoundRaises ==
    /\ rnPc = "round"
    /\ rnPc' = "raised"
    /\ UNCHANGED <<rnReenter, rnNeedsPop, rnBucket, rnClk, rnLog>>
    /\ UNCHANGED outsideReentry

\* sleep(BLACKLIST_COOLDOWN_SEC) is over: break.
ReentryBlacklistOver ==
    /\ rnPc = "blacklist"
    /\ rnPc' = "done"
    /\ UNCHANGED <<rnReenter, rnNeedsPop, rnBucket, rnClk, rnLog>>
    /\ UNCHANGED outsideReentry

\* wait_for_next_pop_or_bucket(mint, jup, REENTER_POP_TIMEOUT_MS) returns.
ReentryGate ==
    /\ rnPc = "gate"
    /\ \E ok \in BOOLEAN :
          /\ rnLog' = [rnLog EXCEPT ![Len(rnLog)].gate =
                                      IF ok THEN "flow" ELSE "timeout"]
          /\ rnPc' = AfterGate(ok, rnReenter)
    /\ UNCHANGED <<rnReenter, rnNeedsPop, rnBucket, rnClk>>
    /\ UNCHANGED outsideReentry

\* sleep(SCALP_COOLDOWN_SEC) is over: the next pass of the loop.
ReentryCooldownOver ==
    /\ rnPc = "cooldown"
    /\ rnPc' = "take"
    /\ UNCHANGED <<rnReenter, rnNeedsPop, rnBucket, rnClk, rnLog>>
    /\ UNCHANGED outsideReentry

\* time passes
ReentryTick ==
    /\ rnClk < MaxReentryTime
    /\ rnClk' = rnClk + 1
    /\ UNCHANGED <<rnReenter, rnNeedsPop, rnPc, rnBucket, rnLog>>
    /\ UNCHANGED outsideReentry

-----------------------------------------------------------------------------
(***************************************************************************)
(* s1_stairs.py: the mcap estimate _est_mcap_usd                           *)
(***************************************************************************)

\* Times are in ticks of 50 ms.  The quote's outAmount for one token is in
\* lamports, the reference price in USD per SOL; with TOKEN_TOTAL_SUPPLY and
\* LAMPORTS_PER_SOL both 10^9 (config.py:298, s1_stairs.py:48) the estimate
\* out / LAMPORTS_PER_SOL * sol_usd * TOKEN_TOTAL_SUPPLY is out * sol_usd USD.

\* Bounds of the estimate harness.
MaxMcapTime == 3
MaxMcapCalls == 3

\* The module-level names of s1_stairs.py that _price_usd_per_token reads,
\* with their values: the imports from config (lines 7-23), the optional
\* imports and their defaults (lines 26-37) and LAMPORTS_PER_SOL (line 48).
\* MCAP_JUMP_CHECK_MS is assigned nowhere in the module and config.py does
\* not define it.
StairsGlobals ==
    [TOKEN_DECIMALS |-> 6, TOKEN_TOTAL_SUPPLY |-> 1000000000,
     LAMPORTS_PER_SOL |-> 1000000000, MCAP_CHECK_INTERVAL_MS |-> 250,
     MCAP_JUMP_MODE_ENABLED |-> 0, MCAP_JUMP_FROM_USD |-> 15000,
     MCAP_JUMP_TO_USD |-> 60000, MCAP_JUMP_HOLD_SEC |-> 60]

\* Reading a global name: its value, or NameError.
NameError == "NameError"
Global(name) ==
    IF name \in DOMAIN StairsGlobals THEN StairsGlobals[name] ELSE NameError

NoEntry == [t |-> -1, v |-> 0]

\* What jup.quote(mint, SOL_MINT, 10 ** TOKEN_DECIMALS) has to offer: it
\* raises, or answers with an outAmount in lamports.
QuoteOffers == {[ok |-> FALSE, out |-> 0], [ok |-> TRUE, out |-> 0],
                [ok |-> TRUE, out |-> 1], [ok |-> TRUE, out |-> 800]}

\* What _get_sol_usd_cached() has to offer: it raises, or a price in USD.
SolOffers == {[ok |-> FALSE, usd |-> 0], [ok |-> TRUE, usd |-> 1],
              [ok |-> TRUE, usd |-> 150]}

\* min_gap = max(0.05, float(MCAP_JUMP_CHECK_MS) / 1000.0), in ticks
MinGap(ms) == Max(1, ms \div 50)

\* _price_usd_per_token times TOKEN_TOTAL_SUPPLY: [v, cache].  Every
\* exception raised in the try block, the NameError of line 120 included,
\* ends in `except Exception: return 0.0`.
EstMcap(entry, now, quote, sol) ==
    LET ms == Global("MCAP_JUMP_CHECK_MS")
    IN  IF ms = NameError THEN [v |-> 0, cache |-> entry]
        ELSE IF entry # NoEntry /\ now - entry.t < MinGap(ms)
        THEN [v |-> entry.v, cache |-> entry]
        ELSE IF ~quote.ok \/ ~sol.ok THEN [v |-> 0, cache |-> entry]
        ELSE [v |-> quote.out * sol.usd,
              cache |-> [t |-> now, v |-> quote.out * sol.usd]]

\* One call of _est_mcap_usd(jup, mint).
McapCall ==
    /\ Len(meLog) < MaxMcapCalls
    /\ \E quote \in QuoteOffers, sol \in SolOffers :
          LET r == EstMcap(meCache, meClock, quote, sol)
          IN  /\ meCache' = r.cache
              /\ meLog' = Append(meLog, [quote |-> quote, sol |-> sol,
                                          t |-> meClock, v |-> r.v])
    /\ UNCHANGED meClock
    /\ UNCHANGED outsideMcap

\* time passes
McapTick ==
    /\ meClock < MaxMcapTime
    /\ meClock' = meClock + 1
    /\ UNCHANGED <<meCache, meLog>>
    /\ UNCHANGED outsideMcap

-----------------------------------------------------------------------------
(***************************************************************************)
(* spike_detector.py: the bucket detector _detect_by_buckets               *)
(***************************************************************************)

\* Times are in ticks of 0.25 s, counted from `start`.

\* PUMP_CUM_MIN_USD (config.py:309)
PUMP_CUM_MIN_USD == 65000

\* Messages received per run of the detector.
MaxBucketMsgs == 4

\* Settings tried: SPIKE_BUCKET_SECS in seconds, SPIKE_REQUIRED,
\* SPIKE_WINDOW_SEC and PUMP_CUM_WINDOW_SEC in ticks (4 s and 9 s; off and
\* 2 s).
BucketDetConfigs ==
    [secs : {0, 2}, required : {0, 2, 4}, window : {16, 36}, cum : {0, 8}]

\* bucket_secs = max(1, int(SPIKE_BUCKET_SECS)), in ticks
BucketTicks(cfg) == 4 * Max(1, cfg.secs)

\* per_iter_timeout = max(0.05, min(0.5, bucket_secs / 4)), in ticks
PerIterTimeout(cfg) == Min(2, Max(1, cfg.secs))

\* max(1, int(SPIKE_REQUIRED))
BucketsRequired(cfg) == Max(1, cfg.required)

\* A finalized bucket counted whatever it received.
BucketQualifiesAlways(events) == TRUE

\* `if bucket_events > 0:` when a bucket is finalized.
BucketQualifies(events) == events > 0

\* qualified_buckets after a bucket with `events` events is finalized.
QualifiedAfter(q, events) == IF BucketQualifies(events) THEN q + 1 ELSE q

\* Top of the while-loop inside the window: roll the bucket if it is
\* bucket_secs old, returning True when that makes enough qualified
\* buckets; else go on to ws.recv().
BktLoopTop ==
    /\ bdPc = "top"
    /\ bdT <= bdCfg.window
    /\ IF bdT - bdStart >= BucketTicks(bdCfg)
       THEN LET q == QualifiedAfter(bdQualified, bdEvents)
            IN  /\ bdClosed' = Append(bdClosed, bdEvents)
                /\ bdQualified' = q
                /\ IF q > bdQualified /\ q >= BucketsRequired(bdCfg)
                   THEN /\ bdPc' = "true"
                        /\ UNCHANGED <<bdStart, bdEvents>>
                   ELSE /\ bdPc' = "recv"
                        /\ bdStart' = bdT
                        /\ bdEvents' = 0
       ELSE /\ bdPc' = "recv"
            /\ UNCHANGED <<bdStart, bdEvents, bdQualified, bdClosed>>
    /\ UNCHANGED <<bdCfg, bdT, bdInWindow, bdMsgs, bdEarly>>
    /\ UNCHANGED outsideBucketDet

\* The while-condition fails: finalize the bucket under way and return.
BktWindowOver ==
    /\ bdPc = "top"
    /\ bdT > bdCfg.window
    /\ LET q == QualifiedAfter(bdQualified, bdEvents)
       IN  /\ bdClosed' = Append(bdClosed, bdEvents)
           /\ bdQualified' = q
           /\ bdPc' = IF q > bdQualified /\ q >= BucketsRequired(bdCfg)
                      THEN "true" ELSE "false"
    /\ UNCHANGED <<bdCfg, bdT, bdStart, bdEvents, bdInWindow, bdMsgs, bdEarly>>
    /\ UNCHANGED outsideBucketDet

\* ws.recv() delivers a message with a non-empty `logs` list after d ticks:
\* one event for the bucket, and the cumulative early trigger is tested.
BktRecvBatch ==
    /\ bdPc = "recv"
    /\ bdMsgs < MaxBucketMsgs
    /\ \E d \in 0 .. PerIterTimeout(bdCfg) - 1 :
          LET now == bdT + d
              early == /\ bdCfg.cum > 0 /\ now <= bdCfg.cum
                       /\ bdInWindow + 1 >= 3 /\ PUMP_CUM_MIN_USD > 0
          IN  /\ bdT' = now
              /\ bdEarly' = early
              /\ bdPc' = IF early THEN "true" ELSE "top"
    /\ bdEvents' = bdEvents + 1
    /\ bdInWindow' = bdInWindow + 1
    /\ bdMsgs' = bdMsgs + 1
    /\ UNCHANGED <<bdCfg, bdStart, bdQualified, bdClosed>>
    /\ UNCHANGED outsideBucketDet

\* ws.recv() delivers something else: a message without logs, or one that
\* does not parse.
BktRecvOther ==
    /\ bdPc = "recv"
    /\ bdMsgs < MaxBucketMsgs
    /\ \E d \in 0 .. PerIterTimeout(bdCfg) - 1 : bdT' = bdT + d
    /\ bdMsgs' = bdMsgs + 1
    /\ bdPc' = "top"
    /\ UNCHANGED <<bdCfg, bdStart, bdEvents, bdQualified, bdInWindow,
                   bdClosed, bdEarly>>
    /\ UNCHANGED outsideBucketDet

\* asyncio.TimeoutError after per_iter_timeout: continue.
BktTimeout ==
    /\ bdPc = "recv"
    /\ bdT' = bdT + PerIterTimeout(bdCfg)
    /\ bdPc' = "top"
    /\ UNCHANGED <<bdCfg, bdStart, bdEvents, bdQualified, bdInWindow, bdMsgs,
                   bdClosed, bdEarly>>
    /\ UNCHANGED outsideBucketDet

\* ws.recv() raises (connection closed): the detector raises.
BktRecvRaises ==
    /\ bdPc = "recv"
    /\ bdPc' = "raised"
    /\ UNCHANGED <<bdCfg, bdT, bdStart, bdEvents, bdQualified, bdInWindow,
                   bdMsgs, bdClosed, bdEarly>>
    /\ UNCHANGED outsideBucketDet

-----------------------------------------------------------------------------
(***************************************************************************)
(* Initial states                                                          *)
(***************************************************************************)

BucketInit ==
    /\ clk = 0
    /\ \E r \in BucketRates, b \in BucketBursts : limiter = NewBucket(r, b, 0)
    /\ limLog = <<>>
    /\ \E r \in BucketRates, b \in BucketBursts : jupLimiter = NewBucket(r, b, 0)
    /\ jupLog = <<>>
    /\ jpc = [c \in Callers |-> "idle"]
    /\ jwake = [c \in Callers |-> 0]

\* The buckets of a specification that does not exercise them.
BucketIdle ==
    /\ clk = 0
    /\ limiter = NewBucket(1, 1, 0)
    /\ limLog = <<>>
    /\ jupLimiter = NewBucket(1, 1, 0)
    /\ jupLog = <<>>
    /\ jpc = [c \in Callers |-> "idle"]
    /\ jwake = [c \in Callers |-> 0]

RequestInit ==
    /\ rqBase \in BackoffBases
    /\ rqPc = "throttle"
    /\ rqAttempt = 0
    /\ rqSleeps = <<>>
    /\ rqAll429 = TRUE
    /\ rqUsedRA = FALSE
    /\ rqError = ""

\* No aggregator call under way.
RequestIdle ==
    /\ rqBase = 4
    /\ rqPc = "throttle"
    /\ rqAttempt = 0
    /\ rqSleeps = <<>>
    /\ rqAll429 = TRUE
    /\ rqUsedRA = FALSE
    /\ rqError = ""

\* A round about to start: DYNAMIC_BAG_ENABLED and the ladder are configuration.
ScalpInit ==
    /\ scMode \in {"milestone", "dynamic"}
    /\ scLadder \in IF scMode = "milestone" THEN LadderConfigs ELSE {DefaultLadder}
    /\ scPc = "buy"
    /\ scArmed = FALSE
    /\ scLast = 0
    /\ scLevels = scLadder.levels
    /\ scFracs = scLadder.fracs
    /\ scNext = DYNAMIC_BAG_START_USD
    /\ scT = 0
    /\ scIdle = DYNAMIC_BAG_IDLE_TIMEOUT_SEC
    /\ scReadings = <<>>
    /\ scSells = <<>>
    /\ scExit = ""

\* No round under way.
ScalpIdle ==
    /\ scMode = "milestone"
    /\ scLadder = DefaultLadder
    /\ scPc = "buy"
    /\ scArmed = FALSE
    /\ scLast = 0
    /\ scLevels = scLadder.levels
    /\ scFracs = scLadder.fracs
    /\ scNext = DYNAMIC_BAG_START_USD
    /\ scT = 0
    /\ scIdle = DYNAMIC_BAG_IDLE_TIMEOUT_SEC
    /\ scReadings = <<>>
    /\ scSells = <<>>
    /\ scExit = ""

\* pops = [], last_t = None, start = time.monotonic(), subscription sent.
PopsInit ==
    /\ pdPc = "recv"
    /\ pdT = 0
    /\ pdLast = -1
    /\ pdPops = <<>>
    /\ pdLog = <<>>
    /\ pdMsgs = 0

\* coordinator() has just started: empty seen, a full limiter, an empty sell
\* queue, the seller loop waiting on it.
ClassicInit ==
    /\ seen = {}
    /\ spawned = [m \in Mints |-> 0]
    /\ bt = [m \in Mints |-> NoTask]
    /\ submitted = [m \in Mints |-> 0]
    /\ sellQ = <<>>
    /\ slPc = "get"
    /\ slItem = NoItem
    /\ schedule = DefaultSchedule
    /\ sh = [m \in Mints |-> [attempts |-> 0, requeues |-> 0,
                               abandoned |-> FALSE, sold |-> FALSE,
                               zeroOnly |-> TRUE]]
    /\ nCands = 0
    /\ dups = [m \in Mints |-> 0]
    /\ verdict = ""

\* The coordinator not running.
ClassicIdle ==
    /\ seen = {}
    /\ spawned = [m \in Mints |-> 0]
    /\ bt = [m \in Mints |-> NoTask]
    /\ submitted = [m \in Mints |-> 0]
    /\ sellQ = <<>>
    /\ slPc = "get"
    /\ slItem = NoItem
    /\ schedule = DefaultSchedule
    /\ sh = [m \in Mints |-> [attempts |-> 0, requeues |-> 0,
                               abandoned |-> FALSE, sold |-> FALSE,
                               zeroOnly |-> TRUE]]
    /\ nCands = 0
    /\ dups = [m \in Mints |-> 0]
    /\ verdict = ""

\* Both mints were admitted, "mA" at tick 0 and "mB" one refill later, and
\* both buy-attempt tasks are inside their first snipe_once call.
SellerInit ==
    /\ seen = Mints
    /\ spawned = [m \in Mints |-> 1]
    /\ bt = [m \in Mints |->
               [pc |-> "snipe", first |-> IF m = "mA" THEN 0 ELSE BuyToken,
                attempt |-> 1, wake |-> 0, balance_seen |-> FALSE]]
    /\ submitted = [m \in Mints |-> 0]
    /\ sellQ = <<>>
    /\ slPc = "get"
    /\ slItem = NoItem
    /\ schedule \in RetrySchedules
    /\ sh = [m \in Mints |-> [attempts |-> 0, requeues |-> 0,
                               abandoned |-> FALSE, sold |-> FALSE,
                               zeroOnly |-> TRUE]]
    /\ nCands = 2
    /\ dups = [m \in Mints |-> 0]
    /\ verdict = "admitted"

\* The clock and the bucket in that state.
ClassicBucketAfterBuys ==
    /\ clk = BuyToken
    /\ limiter = [rate |-> 1, capacity |-> BuyToken, tokens |-> 0,
                  updated |-> BuyToken]
    /\ limLog = <<>>
    /\ jupLimiter = NewBucket(1, 1, 0)
    /\ jupLog = <<>>
    /\ jpc = [c \in Callers |-> "idle"]
    /\ jwake = [c \in Callers |-> 0]

\* The clock and the buy-rate bucket of the coordinator:
\* TokenBucket(MAX_BUYS_PER_SEC, max(1.0, MAX_BUYS_PER_SEC)), full at start.
ClassicBucketInit ==
    /\ clk = 0
    /\ limiter = [rate |-> 1, capacity |-> BuyToken, tokens |-> BuyToken,
                  updated |-> 0]
    /\ limLog = <<>>
    /\ jupLimiter = NewBucket(1, 1, 0)
    /\ jupLog = <<>>
    /\ jpc = [c \in Callers |-> "idle"]
    /\ jwake = [c \in Callers |-> 0]

\* monitor_pumpfun_tokens has subscribed; no instant_buy has run.
InstantInit ==
    /\ ibPc = [at |-> "recv", msgs |-> 0]
    /\ ibLoops = <<>>

\* snipe_once has ensured the ATA: last_err = None, quote = None.
QuoteInit ==
    /\ sqFloor \in LiquidityFloors
    /\ sqPc = "quote"
    /\ sqLog = <<>>
    /\ sqQuote = NoQuote
    /\ sqSwaps = 0

\* No snipe_once under way.
QuoteIdle ==
    /\ sqFloor = 0
    /\ sqPc = "quote"
    /\ sqLog = <<>>
    /\ sqQuote = NoQuote
    /\ sqSwaps = 0

\* The module was imported: _SOL_PRICE_CACHE = {"t": 0.0, "v": 0.0}; the
\* monotonic clock has some value at least the TTL.
PriceInit ==
    /\ prClock = SOL_PRICE_TTL_SEC
    /\ prCache = [t |-> 0, v |-> 0]
    /\ prResp = NoResponse
    /\ prResult = NoResult
    /\ prCalls = 0

\* raydium_new_pool_stream is called: WATCH_PROGRAM_IDS and FORCE_TOKEN_MINT
\* are configuration; nothing was seen or queued.
WatcherInit ==
    /\ wWatch \in WatchLists
    /\ wForce \in ForcedMints
    /\ wPc = "start"
    /\ wSeen = {}
    /\ wPuts = [a \in Addresses |-> 0]
    /\ wPending = 0
    /\ wMsg = NoMessage
    /\ wMsgs = 0
    /\ wConns = 0
    /\ wBeats = 0
    /\ wDups = [log |-> 0, tx |-> 0]
    /\ wWait = 0

\* The watcher not started.
WatcherIdle ==
    /\ wWatch = <<PUMPFUN_PROGRAM_ID>>
    /\ wForce = NoAddress
    /\ wPc = "start"
    /\ wSeen = {}
    /\ wPuts = [a \in Addresses |-> 0]
    /\ wPending = 0
    /\ wMsg = NoMessage
    /\ wMsgs = 0
    /\ wConns = 0
    /\ wBeats = 0
    /\ wDups = [log |-> 0, tx |-> 0]
    /\ wWait = 0

\* coordinator or run_stairs_for_mint in its loop, sessions open, seller_loop
\* (of the coordinator) awaiting its first item.
CleanupInit ==
    /\ cuSite \in CleanupSites
    /\ cuPc = "loop"
    /\ cuSeller = "get"
    /\ cuPasses = 0
    /\ cuLog = <<>>
    /\ cuClosed = {}

\* No cancellation.
CleanupIdle ==
    /\ cuSite = "coordinator"
    /\ cuPc = "loop"
    /\ cuSeller = "get"
    /\ cuPasses = 0
    /\ cuLog = <<>>
    /\ cuClosed = {}

\* _stairs_dispatcher at its first candidates_q.get(): all slots free.
DispatchInit ==
    /\ dCfg \in ConcurrencyConfigs
    /\ dDynamic \in BOOLEAN
    /\ dPc = "get"
    /\ dHeld = NoMint
    /\ dSem = Slots(dCfg)
    /\ dActive = {}
    /\ dTask = [m \in StairsMints |-> NoStairs]
    /\ dClk = 0
    /\ dBuys = <<>>
    /\ dStarts = 0
    /\ dLastEnd = ""
    /\ dWaited = FALSE

\* The dispatcher not running.
DispatchIdle ==
    /\ dCfg = 1
    /\ dDynamic = FALSE
    /\ dPc = "get"
    /\ dHeld = NoMint
    /\ dSem = Slots(1)
    /\ dActive = {}
    /\ dTask = [m \in StairsMints |-> NoStairs]
    /\ dClk = 0
    /\ dBuys = <<>>
    /\ dStarts = 0
    /\ dLastEnd = ""
    /\ dWaited = FALSE

\* The pattern was seen and milestone mode is on: the loop is entered.
ReentryInit ==
    /\ rnReenter \in BOOLEAN
    /\ rnNeedsPop \in BOOLEAN
    /\ rnPc = "take"
    /\ rnBucket = NewBucket(1, 1, 0)
    /\ rnClk = 0
    /\ rnLog = <<>>

\* No re-entry loop running.
ReentryIdle ==
    /\ rnReenter = TRUE
    /\ rnNeedsPop = TRUE
    /\ rnPc = "take"
    /\ rnBucket = NewBucket(1, 1, 0)
    /\ rnClk = 0
    /\ rnLog = <<>>

\* _PRICE_CACHE = {} at import.
McapInit ==
    /\ meClock = 0
    /\ meCache = NoEntry
    /\ meLog = <<>>

\* start = bucket_start = time.monotonic(), counters 0, subscription sent.
BucketDetInit ==
    /\ bdCfg \in BucketDetConfigs
    /\ bdPc = "top"
    /\ bdT = 0
    /\ bdStart = 0
    /\ bdEvents = 0
    /\ bdQualified = 0
    /\ bdInWindow = 0
    /\ bdMsgs = 0
    /\ bdClosed = <<>>
    /\ bdEarly = FALSE

\* No bucket detector running.
BucketDetIdle ==
    /\ bdCfg = [secs |-> 2, required |-> 2, window |-> 16, cum |-> 0]
    /\ bdPc = "top"
    /\ bdT = 0
    /\ bdStart = 0
    /\ bdEvents = 0
    /\ bdQualified = 0
    /\ bdInWindow = 0
    /\ bdMsgs = 0
    /\ bdClosed = <<>>
    /\ bdEarly = FALSE

-----------------------------------------------------------------------------
(***************************************************************************)
(* dynamic_bag_round: the ladder loop, one iteration per step              *)
(* (s1_stairs.py:229-232)                                                  *)
(***************************************************************************)

\* Values of DYNAMIC_BAG_STEP_USD = _f("DYNAMIC_BAG_STEP_USD", 10000), a float
\* read from the environment as it is (config.py:321), in thousands of USD.
StepValues == {-10, 0, 10, 20}

\* Readings of polls that reach the ladder: positive, below
\* DYNAMIC_BAG_MAX_USD, above MCAP_STOP_LOSS, in thousands of USD.
LadderReadings == {115, 120, 135, 150}

\* Polls of one round and sells logged.
MaxLadderPolls == 3
MaxLadderSells == 4

\* `next_level += float(DYNAMIC_BAG_STEP_USD)`
NextLevel(level, step) == level + step

\* `while mcap >= next_level:`
LadderHit(mcap, level) == mcap >= level

\* A poll of a market that does not fall: the reading passes the exits of
\* lines 204-227 and the ladder loop is entered.
LadderPoll ==
    /\ ldPc = "poll"
    /\ ldPolls < MaxLadderPolls
    /\ \E mcap \in LadderReadings :
          /\ mcap >= ldMcap
          /\ ldMcap' = mcap
    /\ ldPc' = "ladder"
    /\ ldPolls' = ldPolls + 1
    /\ UNCHANGED <<ldStep, ldLevel, ldSold>>
    /\ UNCHANGED outsideLadder

\* One iteration: sell_fraction(DYNAMIC_BAG_SELL_FRAC) at next_level, then
\* the level moves by the step.
LadderSell ==
    /\ ldPc = "ladder"
    /\ LadderHit(ldMcap, ldLevel)
    /\ Len(ldSold) < MaxLadderSells
    /\ ldSold' = Append(ldSold, ldLevel)
    /\ ldLevel' = NextLevel(ldLevel, ldStep)
    /\ UNCHANGED <<ldStep, ldPc, ldMcap, ldPolls>>
    /\ UNCHANGED outsideLadder

\* sell_fraction raises: the exception leaves dynamic_bag_round.
LadderSellRaises ==
    /\ ldPc = "ladder"
    /\ LadderHit(ldMcap, ldLevel)
    /\ ldPc' = "raised"
    /\ UNCHANGED <<ldStep, ldMcap, ldLevel, ldSold, ldPolls>>
    /\ UNCHANGED outsideLadder

\* The while-condition fails: on to the idle test, the sleep and the next
\* poll.
LadderLeaves ==
    /\ ldPc = "ladder"
    /\ ~LadderHit(ldMcap, ldLevel)
    /\ ldPc' = "poll"
    /\ UNCHANGED <<ldStep, ldMcap, ldLevel, ldSold, ldPolls>>
    /\ UNCHANGED outsideLadder

\* `next_level = float(DYNAMIC_BAG_START_USD)` (s1_stairs.py:198) before the
\* first poll.
LadderInit ==
    /\ ldStep \in StepValues
    /\ ldPc = "poll"
    /\ ldMcap = 0
    /\ ldLevel = DYNAMIC_BAG_START_USD
    /\ ldSold = <<>>
    /\ ldPolls = 0

\* No ladder loop running.
LadderIdle ==
    /\ ldStep = DYNAMIC_BAG_STEP_USD
    /\ ldPc = "poll"
    /\ ldMcap = 0
    /\ ldLevel = DYNAMIC_BAG_START_USD
    /\ ldSold = <<>>
    /\ ldPolls = 0

\* The components added last, not running.
LateIdle == ReentryIdle /\ McapInit /\ BucketDetIdle /\ LadderIdle

\* The components added after the watcher, not running.
MoreIdle == CleanupIdle /\ DispatchIdle /\ LateIdle

\* The components added after the classic coordinator, not running.
RestIdle == InstantInit /\ QuoteIdle /\ PriceInit /\ WatcherIdle /\ MoreIdle


-----------------------------------------------------------------------------
(***************************************************************************)
(* Specifications                                                          *)
(***************************************************************************)

BucketNext ==
    \/ Tick
    \/ LimTake
    \/ \E c \in Callers : JupCall(c)
    \/ \E c \in Callers : JupTry(c)
    \/ \E c \in Callers : JupWake(c)

InitBucketSpec ==
    BucketInit /\ RequestIdle /\ ScalpIdle /\ PopsInit /\ ClassicIdle /\ RestIdle

SpecBucket == InitBucketSpec /\ [][BucketNext]_vars

RequestNext ==
    \/ ReqThrottle
    \/ Req429
    \/ Req429RetryAfter
    \/ Req5xx
    \/ ReqClientError
    \/ ReqFinal

InitRequestSpec ==
    BucketIdle /\ RequestInit /\ ScalpIdle /\ PopsInit /\ ClassicIdle /\ RestIdle

SpecRequest == InitRequestSpec /\ [][RequestNext]_vars

ScalpNext ==
    \/ ScalpBuy
    \/ MilestonePoll
    \/ MilestoneHoldExpired
    \/ DynamicPoll
    \/ DynamicDeadline

InitScalpSpec ==
    BucketIdle /\ RequestIdle /\ ScalpInit /\ PopsInit /\ ClassicIdle /\ RestIdle

SpecScalp == InitScalpSpec /\ [][ScalpNext]_vars

PopsNext ==
    \/ PopRecvPop
    \/ PopRecvOther
    \/ PopTimeout
    \/ PopWindowOver
    \/ PopRecvRaises

InitPopsSpec ==
    BucketIdle /\ RequestIdle /\ ScalpIdle /\ PopsInit /\ ClassicIdle /\ RestIdle

SpecPops == InitPopsSpec /\ [][PopsNext]_vars

\* The coordinator and its buy-attempt tasks.  seller_loop reads and writes
\* only the sell queue and its own item, so it is left to SpecSeller.
ClassicNext ==
    \/ BuyTick
    \/ CoordEval
    \/ \E m \in Mints : BuyAttempt(m)
    \/ \E m \in Mints : BuyExpired(m)
    \/ \E m \in Mints : BuySnipeFails(m)
    \/ \E m \in Mints : BuySnipeSubmits(m)
    \/ \E m \in Mints : BuyWake(m)

InitClassicSpec ==
    ClassicBucketInit /\ RequestIdle /\ ScalpIdle /\ PopsInit /\ ClassicInit /\ RestIdle

SpecClassic == InitClassicSpec /\ [][ClassicNext]_vars

\* seller_loop, fed by the snipe_once calls of the two admitted tasks.
SellerNext ==
    \/ SellTick
    \/ \E m \in Mints : BuySnipeSubmits(m)
    \/ SellerGet
    \/ SellerStart
    \/ SellerFails
    \/ SellerSells

InitSellerSpec ==
    ClassicBucketAfterBuys /\ RequestIdle /\ ScalpIdle /\ PopsInit /\ SellerInit /\ RestIdle

SpecSeller == InitSellerSpec /\ [][SellerNext]_vars

\* The coordinator, its buy-attempt tasks and seller_loop together, the
\* clock moving from one timer to the next.
TogetherNext ==
    \/ EventTick
    \/ CoordEval
    \/ \E m \in Mints : BuyAttempt(m)
    \/ \E m \in Mints : BuyExpired(m)
    \/ \E m \in Mints : BuySnipeFails(m)
    \/ \E m \in Mints : BuySnipeSubmits(m)
    \/ \E m \in Mints : BuyWake(m)
    \/ SellerGet
    \/ SellerStart
    \/ SellerFails
    \/ SellerSells

InitTogetherSpec ==
    ClassicBucketInit /\ RequestIdle /\ ScalpIdle /\ PopsInit /\ ClassicInit /\ RestIdle

SpecTogether == InitTogetherSpec /\ [][TogetherNext]_vars

\* token_monitor.py: the monitor and the seller_loop tasks of instant_buy.
InstantNext ==
    \/ InstantTick
    \/ MonitorSkips
    \/ MonitorBuyRaises
    \/ MonitorBuys
    \/ \E i \in LoopIds : InstantSellerGet(i)
    \/ \E i \in LoopIds : InstantSellerStart(i)
    \/ \E i \in LoopIds : InstantSellerFails(i)
    \/ \E i \in LoopIds : InstantSellerSells(i)

InitInstantSpec ==
    ClassicBucketInit /\ RequestIdle /\ ScalpIdle /\ PopsInit /\ ClassicIdle
        /\ InstantInit /\ QuoteIdle /\ PriceInit /\ WatcherIdle /\ MoreIdle

SpecInstant == InitInstantSpec /\ [][InstantNext]_vars

\* One call of snipe_once, from its first quote to the send of the swap.
QuoteNext ==
    \/ SnipeQuote
    \/ SnipeSwap
    \/ SnipeSend

InitQuoteSpec ==
    BucketIdle /\ RequestIdle /\ ScalpIdle /\ PopsInit /\ ClassicIdle
        /\ InstantInit /\ QuoteInit /\ PriceInit /\ WatcherIdle /\ MoreIdle

SpecQuote == InitQuoteSpec /\ [][QuoteNext]_vars

\* The price oracle and its callers.
PriceNext ==
    \/ PriceTick
    \/ PriceCall
    \/ PriceCallCached

InitPriceSpec ==
    BucketIdle /\ RequestIdle /\ ScalpIdle /\ PopsInit /\ ClassicIdle
        /\ InstantInit /\ QuoteIdle /\ PriceInit /\ WatcherIdle /\ MoreIdle

SpecPrice == InitPriceSpec /\ [][PriceNext]_vars

\* The watcher and its transaction fallback tasks.
WatcherNext ==
    \/ WatcherStart
    \/ WatcherConnect
    \/ WatcherDrop
    \/ WatcherReconnect
    \/ WatcherRecv
    \/ FallbackRun

InitWatcherSpec ==
    BucketIdle /\ RequestIdle /\ ScalpIdle /\ PopsInit /\ ClassicIdle
        /\ InstantInit /\ QuoteIdle /\ PriceInit /\ WatcherInit /\ MoreIdle

SpecWatcher == InitWatcherSpec /\ [][WatcherNext]_vars

\* The sleep of the except branch ends.
SpecWatcherFair == SpecWatcher /\ WF_vars(WatcherReconnect)

\* A task, its cancellation and its finally block.
CleanupNext ==
    \/ CleanupPass
    \/ CleanupBegins
    \/ CleanupSeller
    \/ \E step \in {"jup", "wallet"} : CleanupClose(step)

\* The components of the earlier sections, not running.
OldIdle ==
    BucketIdle /\ RequestIdle /\ ScalpIdle /\ PopsInit /\ ClassicIdle
        /\ InstantInit /\ QuoteIdle /\ PriceInit /\ WatcherIdle

InitCleanupSpec == OldIdle /\ CleanupInit /\ DispatchIdle /\ LateIdle

SpecCleanup == InitCleanupSpec /\ [][CleanupNext]_vars

\* The stairs dispatcher and its run_stairs_for_mint tasks.
DispatchNext ==
    \/ DispatchTick
    \/ DispatchGet
    \/ DispatchAcquire
    \/ \E m \in StairsMints : StairsBegin(m)
    \/ \E m \in StairsMints : StairsPattern(m)
    \/ \E m \in StairsMints : StairsTake(m)
    \/ \E m \in StairsMints : StairsReenter(m)
    \/ \E m \in StairsMints : StairsEnd(m)

InitDispatchSpec == OldIdle /\ CleanupIdle /\ DispatchInit /\ LateIdle

SpecDispatch == InitDispatchSpec /\ [][DispatchNext]_vars

\* The components of the sections up to the dispatcher, not running.
SettledIdle == OldIdle /\ CleanupIdle /\ DispatchIdle

\* The re-entry loop of one run_stairs_for_mint task.
ReentryNext ==
    \/ ReentryTick
    \/ ReentryTake
    \/ ReentryRoundReturns
    \/ ReentryRoundRaises
    \/ ReentryBlacklistOver
    \/ ReentryGate
    \/ ReentryCooldownOver

InitReentrySpec ==
    SettledIdle /\ ReentryInit /\ McapInit /\ BucketDetIdle /\ LadderIdle

SpecReentry == InitReentrySpec /\ [][ReentryNext]_vars

\* The callers of _est_mcap_usd.
McapNext ==
    \/ McapTick
    \/ McapCall

InitMcapSpec ==
    SettledIdle /\ ReentryIdle /\ McapInit /\ BucketDetIdle /\ LadderIdle

SpecMcap == InitMcapSpec /\ [][McapNext]_vars

\* One run of the bucket detector.
BucketDetNext ==
    \/ BktLoopTop
    \/ BktWindowOver
    \/ BktRecvBatch
    \/ BktRecvOther
    \/ BktTimeout
    \/ BktRecvRaises

InitBucketDetSpec ==
    SettledIdle /\ ReentryIdle /\ McapInit /\ BucketDetInit /\ LadderIdle

SpecBucketDet == InitBucketDetSpec /\ [][BucketDetNext]_vars

\* The ladder loop over the polls of one dynamic-bag round.
LadderNext ==
    \/ LadderPoll
    \/ LadderSell
    \/ LadderSellRaises
    \/ LadderLeaves

InitLadderSpec ==
    SettledIdle /\ ReentryIdle /\ McapInit /\ BucketDetIdle /\ LadderInit

SpecLadder == InitLadderSpec /\ [][LadderNext]_vars


-----------------------------------------------------------------------------
(***************************************************************************)
(* Claims                                                                  *)
(***************************************************************************)

\* Admissions logged at t_i <= ... <= t_j all lie in a window of length
\* t_j - t_i; the bound capacity + rate * T for every such window.
WindowBound(b, log) ==
    \A i \in 1 .. Len(log) : \A j \in i .. Len(log) :
        (j - i + 1) * TokenUnit <= b.capacity + b.rate * (log[j] - log[i])

\* C1: for both buckets, from a full bucket and for any sequence of take(1)
\* calls at non-decreasing clock values, the number of calls admitted in any
\* time window of length T never exceeds capacity + rate * T.
C1_TokenBucketBound ==
    /\ WindowBound(limiter, limLog)
    /\ WindowBound(jupLimiter, jupLog)

\* Both buckets were drained, refused a call and admitted again after refill.
C1_Witness ==
    /\ Len(limLog) = MaxTakes /\ limLog[MaxTakes] > limLog[1]
    /\ Len(jupLog) = MaxTakes /\ jupLog[MaxTakes] > jupLog[1]
    /\ limiter.capacity = TokenUnit /\ jupLimiter.capacity = TokenUnit

NonDecreasing(s) == \A i \in 1 .. Len(s) - 1 : s[i] <= s[i + 1]

\* C4: a logical call that gets HTTP 429 on every attempt sleeps after each of
\* the first JUP_MAX_RETRIES (5) responses, sends request JUP_MAX_RETRIES + 1
\* (the 6th) and on that 429 raises the rate-limit error without a further
\* sleep.
C4_RateLimitExhaustion ==
    (rqAll429 /\ rqAttempt > 0) =>
        /\ rqAttempt <= JUP_MAX_RETRIES + 1
        /\ Len(rqSleeps) = Min(rqAttempt, JUP_MAX_RETRIES)
        /\ (rqPc = "raised") = (rqAttempt = JUP_MAX_RETRIES + 1)
        /\ rqPc \in {"http", "raised"}
        /\ (rqPc = "raised" => rqError = "429")

\* The 6th consecutive 429 has raised.
C4_Witness ==
    /\ rqAll429 /\ rqAttempt = 6 /\ rqPc = "raised" /\ Len(rqSleeps) = 5

\* C5 as stated: the delays slept within one logical call are non-decreasing,
\* for every jitter draw and every configured backoff base.
C5_DelaysNonDecreasing == NonDecreasing(rqSleeps)

\* C5 amended: when no slept delay came from a Retry-After header and
\* JUP_BACKOFF_BASE_MS is at least 200 ms (the jitter span), the delays
\* slept within one logical call are non-decreasing for every jitter draw.
C5_DelaysNonDecreasingAmended ==
    (~rqUsedRA /\ rqBase >= JitterSpan) => NonDecreasing(rqSleeps)

\* Five computed delays were slept with the default base.
C5_Witness ==
    /\ ~rqUsedRA /\ rqBase = JitterSpan
    /\ Len(rqSleeps) = JUP_MAX_RETRIES /\ ~rqAll429
    /\ rqSleeps[1] = 7 /\ rqSleeps[2] = 8

\* C27: every logical aggregator call (quote or swap build) consumes exactly
\* one token of the shared limiter, acquired before its first HTTP attempt;
\* retry attempts inside the same logical call acquire no further token.
C27_OneTokenPerCall ==
    /\ [](Len(jupLog) = IF rqPc = "throttle" THEN 0 ELSE 1)
    /\ [](rqPc = "throttle" => rqAttempt = 0 /\ rqSleeps = <<>>)
    /\ [](rqPc # "throttle" =>
            jupLimiter.tokens = jupLimiter.capacity - TokenUnit)
    /\ [][rqAttempt' # rqAttempt =>
            jupLimiter' = jupLimiter /\ jupLog' = jupLog]_vars

\* A call that was retried five times and then returned, one token taken.
C27_Witness ==
    /\ rqPc = "returned" /\ rqAttempt = JUP_MAX_RETRIES + 1
    /\ Len(rqSleeps) = JUP_MAX_RETRIES /\ Len(jupLog) = 1

\* The sells issued at poll n, as the sequence of their percentages.
SellsAt(n) ==
    LET idx == {k \in 1 .. Len(scSells) : scSells[k].poll = n}
        F[k \in 0 .. Len(scSells)] ==
            IF k = 0 THEN <<>>
            ELSE IF k \in idx THEN Append(F[k - 1], scSells[k].pct) ELSE F[k - 1]
    IN  F[Len(scSells)]

\* C6 as stated: in a milestone-scalp round with TP levels 120000 -> 30%,
\* 130000 -> 25%, 140000 -> 20%, sell-all level 160000 and the successive
\* readings 100000, 121000, 131000, 161000, the sells issued are exactly: none
\* at the first reading, 30% at the second, 25% at the third and a single
\* 100% sell at the fourth, in that order.
C6_LadderExample ==
    (/\ scMode = "milestone" /\ scLadder = ShortLadder
     /\ scReadings = <<100, 121, 131, 161>> /\ scPc = "returned")
    => /\ SellsAt(1) = <<>>
       /\ SellsAt(2) = <<30>>
       /\ SellsAt(3) = <<25>>
       /\ SellsAt(4) = <<100>>
       /\ Len(scSells) = 3

\* The last positive reading before reading i, 0 when there is none.
PrevPositive(i) ==
    LET S == {j \in 1 .. i - 1 : scReadings[j] > 0}
    IN  IF S = {} THEN 0 ELSE scReadings[CHOOSE j \in S : \A k \in S : k <= j]

\* Reading i is positive and at least 3.5 percent below the previous positive
\* reading.
DroppedAt(i) ==
    /\ scReadings[i] > 0 /\ PrevPositive(i) > 0
    /\ 1000 * (PrevPositive(i) - scReadings[i]) >= 35 * PrevPositive(i)

\* C7: in both rounds, when a positive reading is lower than the previous
\* positive reading by at least INSTANT_DROP_STOP_PCT percent, the round
\* issues exactly one sell on that poll, of 100%, with armed_stop and the
\* pending take-profit levels as the earlier polls left them, and ends: no
\* later reading is taken.
C7_InstantDropExit ==
    \A i \in 1 .. Len(scReadings) :
        DroppedAt(i) =>
            /\ i = Len(scReadings)
            /\ scPc \in {"returned", "raised"}
            /\ scExit = "drop"
            /\ SellsAt(i) = <<100>>
            /\ scSells[Len(scSells)] = [poll |-> i, pct |-> 100]
            /\ scArmed = (\E j \in 1 .. i - 1 : scReadings[j] >= MCAP_ARM_STOP_AFTER)
            /\ scLast = PrevPositive(i)

\* A dynamic-bag round armed its stop at 121000, read nothing, then 93000: the
\* drop exit fired although the armed stop-loss was due on the same reading.
C7_Witness ==
    /\ scMode = "dynamic" /\ scReadings = <<121, 0, 93>>
    /\ scArmed /\ scExit = "drop" /\ scPc = "returned"
    /\ scSells = <<[poll |-> 1, pct |-> 10], [poll |-> 3, pct |-> 100]>>

\* armed_stop as reading i finds it after the arming test of its own poll.
ArmedAt(i) == \E j \in 1 .. i : scReadings[j] >= MCAP_ARM_STOP_AFTER

\* Reading i ended the round with the stop-loss exit: one sell on that poll,
\* of 100%, and no later reading.
StopExitAt(i) ==
    /\ i = Len(scReadings)
    /\ scPc \in RoundEnds
    /\ SellsAt(i) = <<100>>

\* C28 as stated: in both rounds armed_stop starts false, becomes true at the
\* first poll with mcap >= MCAP_ARM_STOP_AFTER, never returns to false, and a
\* reading with mcap <= MCAP_STOP_LOSS causes a 100% sell and exit if and
\* only if the stop is armed at that poll.
C28_StopOnlyWhileArmed ==
    /\ scArmed = ArmedAt(Len(scReadings))
    /\ \A i \in 1 .. Len(scReadings) :
          scReadings[i] <= MCAP_STOP_LOSS => (StopExitAt(i) <=> ArmedAt(i))

\* C28 amended: in both rounds armed_stop starts false, becomes true at the
\* first poll with mcap >= MCAP_ARM_STOP_AFTER and never returns to false;
\* the stop-loss exit is taken only while the stop is armed; a positive
\* reading with mcap <= MCAP_STOP_LOSS that is not an instant drop from the
\* previous positive reading causes a 100% sell and exit if and only if the
\* stop is armed at that poll; and a non-positive reading sells nothing,
\* armed or not.
C28_StopOnlyWhileArmedAmended ==
    /\ [](scArmed = ArmedAt(Len(scReadings)))
    /\ [][scArmed => scArmed']_vars
    /\ [](scExit = "stop" =>
            /\ scArmed /\ StopExitAt(Len(scReadings))
            /\ scReadings[Len(scReadings)] <= MCAP_STOP_LOSS)
    /\ [](\A i \in 1 .. Len(scReadings) :
            /\ (/\ scReadings[i] > 0 /\ scReadings[i] <= MCAP_STOP_LOSS
                /\ ~DroppedAt(i))
               => ((StopExitAt(i) /\ scExit = "stop") <=> ArmedAt(i))
            /\ scReadings[i] <= 0 => SellsAt(i) = <<>>)

\* A milestone round armed its stop at 115000, slid to 112000 and then to
\* 110000 without an instant drop: the stop-loss sold 100% and returned.
C28_Witness ==
    /\ scMode = "milestone" /\ scReadings = <<115, 112, 110>>
    /\ scArmed /\ scExit = "stop" /\ scPc = "returned"
    /\ scSells = <<[poll |-> 3, pct |-> 100]>>

\* milestone_scalp_round has returned its PnL.
MilestoneReturned == scMode = "milestone" /\ scPc = "returned"

\* C29: every milestone-scalp round that returns does so immediately after
\* issuing a 100% sell: on instant drop, on armed stop-loss, on reaching the
\* sell-all level, and, when none of these has fired before SCALP_HOLD_SEC
\* elapses (including when every mcap reading is non-positive), on hold-time
\* expiry.
C29_MilestoneReturnsAfterSellAll ==
    /\ [](MilestoneReturned =>
            /\ scSells # <<>> /\ scSells[Len(scSells)].pct = 100
            /\ scExit \in {"drop", "stop", "sellall", "hold"}
            /\ scExit = "drop" => DroppedAt(Len(scReadings))
            /\ scExit = "stop" =>
                   /\ ArmedAt(Len(scReadings))
                   /\ scReadings[Len(scReadings)] <= MCAP_STOP_LOSS
            /\ scExit = "sellall" =>
                   scReadings[Len(scReadings)] >= MCAP_SELL_ALL_LEVEL
            /\ scExit = "hold" => scT >= SCALP_HOLD_SEC)
    /\ [][(scMode = "milestone" /\ scPc # "returned" /\ scPc' = "returned")
           => /\ Len(scSells') > Len(scSells)
              /\ scSells'[Len(scSells')].pct = 100]_vars
    /\ []((scMode = "milestone" /\ scPc = "poll" /\ scT >= SCALP_HOLD_SEC)
           => ENABLED MilestoneHoldExpired /\ ~ENABLED MilestonePoll)

\* A milestone round read nothing but non-positive values until the hold time
\* was over, sold 100% and returned.
C29_Witness ==
    /\ scMode = "milestone" /\ scPc = "returned" /\ scExit = "hold"
    /\ scReadings = <<0, 0, 0>> /\ scT >= SCALP_HOLD_SEC
    /\ scSells = <<[poll |-> 0, pct |-> 100]>>

\* dynamic_bag_round has left its `while True:` loop, by break or by an
\* exception raised inside it.
DynamicLeftLoop ==
    scMode = "dynamic" /\ scPc \in RoundEnds /\ scExit # "buy"

\* C30: a dynamic-bag round leaves its monitoring loop only through one of
\* five exits (absolute max-duration timeout, idle timeout with no fresh
\* flow, instant-drop stop, armed stop-loss, max-mcap ceiling), each of which
\* issues a 100% sell immediately before leaving; a ladder-level sell alone
\* never ends the round.
C30_FiveExitsOnly ==
    DynamicLeftLoop =>
        /\ scExit \in {"deadline", "idle", "drop", "stop", "max"}
        /\ scSells # <<>>
        /\ scSells[Len(scSells)].pct = 100

\* A loop top of dynamic_bag_round.
DynamicAtLoopTop == scMode = "dynamic" /\ scPc = "poll"

\* C31: a dynamic-bag round always terminates: whatever the mcap readings and
\* fresh-flow signals, and even if every reading is non-positive, it exits
\* with a 100% sell on the first loop iteration that begins at or after the
\* absolute max-duration deadline; and once the idle deadline has passed
\* without a fresh-flow signal it exits on the next poll.
C31_DynamicTerminates ==
    /\ []((DynamicAtLoopTop /\ scT >= DYNAMIC_BAG_MAX_DURATION_SEC)
           => ENABLED DynamicDeadline /\ ~ENABLED DynamicPoll)
    /\ [][(/\ DynamicAtLoopTop /\ scT >= scIdle
            /\ Len(scReadings') = Len(scReadings) + 1
            /\ scIdle' = scIdle)
           => /\ scPc' \in RoundEnds
              /\ scSells' # <<>>
              /\ scSells'[Len(scSells')].pct = 100]_vars

\* The number of pops at the end of pdLog that are linked by consecutive gaps
\* within [SPIKE_GAP_MIN_MS, SPIKE_GAP_MAX_MS]; 0 for an empty log.
LinkedSuffix(log) ==
    LET n == Len(log)
        ok(k) == \A i \in n - k + 2 .. n :
                     /\ SPIKE_GAP_MIN_MS <= log[i] - log[i - 1]
                     /\ log[i] - log[i - 1] <= SPIKE_GAP_MAX_MS
    IN  IF n = 0 THEN 0
        ELSE CHOOSE k \in 1 .. n : ok(k) /\ \A m \in k + 1 .. n : ~ok(m)

\* The chain kept by the detector is the linked suffix of the pops received,
\* so a pop after an out-of-range gap restarts it at length 1; and the
\* detector has returned true exactly when that chain reached SPIKE_REQUIRED
\* with its last pop at most `limit` after the start, false only without it.
PopChainWithin(limit) ==
    /\ Len(pdPops) = LinkedSuffix(pdLog)
    /\ (pdPc = "true") = (LinkedSuffix(pdLog) >= SPIKE_REQUIRED)
    /\ pdPc = "true" => pdLog[Len(pdLog)] <= limit

\* C10 as stated: a pop whose gap to the previous pop lies outside
\* [SPIKE_GAP_MIN_MS, SPIKE_GAP_MAX_MS] resets the chain length to 1; the
\* detector returns true only when SPIKE_REQUIRED pops linked by consecutive
\* in-range gaps have occurred before SPIKE_WINDOW_SEC elapses, and false
\* otherwise.
C10_PopChain == PopChainWithin(SPIKE_WINDOW_SEC)

\* C10 amended: the same, with the last pop of the chain received no later
\* than SPIKE_WINDOW_SEC plus the 0.05 s floor of the receive timeout.
C10_PopChainAmended == PopChainWithin(SPIKE_WINDOW_SEC + RecvFloor)

\* The second pop came 6.025 s after the first and restarted the chain; the
\* four pops after the restart made the detector return true.
C10_Witness ==
    /\ pdPc = "true" /\ Len(pdLog) = 5 /\ Len(pdPops) = 4
    /\ pdLog[2] - pdLog[1] = SPIKE_GAP_MAX_MS + 1

\* C2: for every sequence of candidates, a mint is added to seen and given a
\* buy-attempt task at most once (the two always together), and seen never
\* shrinks.
C2_AdmittedOnce ==
    /\ [](\A m \in Mints : spawned[m] <= 1 /\ (m \in seen <=> spawned[m] = 1))
    /\ [][seen \subseteq seen']_vars

\* A mint was admitted, its task finished, and a later candidate for the
\* same mint was skipped as already seen.
C2_Witness ==
    \E m \in Mints :
        dups[m] >= 1 /\ spawned[m] = 1 /\ bt[m].pc \in {"done", "expired"}

\* C3: for each mint at most one buy swap is ever submitted: a buy-attempt
\* task that has submitted its swap is finished for good, and there is never a
\* second task for the mint.
C3_OneBuyPerMint ==
    \A m \in Mints :
        /\ submitted[m] <= 1
        /\ submitted[m] = 1 => bt[m].pc = "done"
        /\ bt[m].pc = "done" => submitted[m] = 1
        /\ spawned[m] <= 1
        /\ spawned[m] = 0 => submitted[m] = 0 /\ bt[m].pc = "none"

\* A task failed its first attempt, bought at its second, and a further
\* candidate for its mint arrived afterwards.
C3_Witness ==
    \E m \in Mints :
        submitted[m] = 1 /\ bt[m].attempt = 2 /\ dups[m] >= 1

\* Attempts on the intent of mint m that have ended.
EndedAttempts(m) ==
    sh[m].attempts - (IF slPc = "work" /\ slItem.mint = m THEN 1 ELSE 0)

\* The intent of mint m is in the sell queue or in the seller's hands.
IntentAlive(m) ==
    \/ slItem.mint = m
    \/ \E i \in 1 .. Len(sellQ) : sellQ[i].mint = m

\* C8: an intent that saw zero balance on every attempt so far is attempted
\* at most SELL_RETRY_MAX_TRIES times; it was re-enqueued after each of its
\* first SELL_RETRY_MAX_TRIES - 1 attempts and is abandoned, no longer in the
\* queue, exactly when attempt SELL_RETRY_MAX_TRIES has ended.
C8_ZeroBalanceAttempts ==
    \A m \in Mints :
        (sh[m].zeroOnly /\ submitted[m] = 1) =>
            /\ sh[m].attempts <= SELL_RETRY_MAX_TRIES
            /\ sh[m].requeues = Min(EndedAttempts(m), SELL_RETRY_MAX_TRIES - 1)
            /\ sh[m].abandoned <=> EndedAttempts(m) = SELL_RETRY_MAX_TRIES
            /\ IntentAlive(m) <=> ~sh[m].abandoned

\* An intent was abandoned after five zero-balance attempts and four
\* re-enqueues.
C8_Witness ==
    \E m \in Mints :
        /\ sh[m].zeroOnly /\ sh[m].abandoned
        /\ sh[m].attempts = SELL_RETRY_MAX_TRIES
        /\ sh[m].requeues = SELL_RETRY_MAX_TRIES - 1

\* C9: the step that re-enqueues the intent of a mint for the k-th time
\* appends to the sell queue an item whose scheduled time is the current
\* clock plus SELL_RETRY_SCHEDULE[min(k-1, len-1)] (0-based), with tries = k.
C9_RetrySchedule ==
    [][\A m \in Mints :
          sh'[m].requeues # sh[m].requeues =>
              LET k == sh[m].requeues + 1
                  idx == IF k - 1 < Len(schedule) - 1 THEN k - 1
                         ELSE Len(schedule) - 1
              IN  /\ sh'[m].requeues = k
                  /\ sellQ' = Append(sellQ, [mint |-> m,
                                             sell_at |-> clk + schedule[idx + 1],
                                             tries |-> k])]_vars

\* With the two-entry schedule, an intent has just been re-enqueued for the
\* fourth time, 1.3 s ahead: the last entry, used beyond the list's end.
C9_Witness ==
    /\ schedule = ShortSchedule
    /\ \E i \in 1 .. Len(sellQ) :
          /\ sellQ[i].tries = 4
          /\ sh[sellQ[i].mint].requeues = 4
          /\ sellQ[i].sell_at = clk + 13

\* C11: at most one sell is in flight at any time system-wide: of all the
\* seller_loop tasks of the process (the coordinator's and those created by
\* instant_buy) at most one is between the start of its balance check and the
\* end of its attempt.
SellsInFlight ==
    Cardinality({i \in DOMAIN ibLoops : ibLoops[i].pc = "work"})
        + (IF slPc = "work" THEN 1 ELSE 0)

C11_OneSellInFlight == SellsInFlight <= 1

\* C12: the seller loop never starts to process an intent while an intent
\* with an earlier scheduled time waits in the sell queue.
C12_ScheduledOrder ==
    [][(slPc = "wait" /\ slPc' = "work")
          => \A k \in 1 .. Len(sellQ) : slItem.sell_at <= sellQ[k].sell_at]_vars

\* C13: in every reachable state of the blocking aggregator bucket, with
\* several tasks inside take() at once, 0 <= tokens <= capacity, and every
\* grant has taken one whole token out of the bucket: the tokens left plus
\* the tokens granted never exceed the capacity plus what was refilled.
C13_BlockingBucket ==
    /\ 0 <= jupLimiter.tokens
    /\ jupLimiter.tokens <= jupLimiter.capacity
    /\ jupLimiter.tokens + Len(jupLog) * TokenUnit
          <= jupLimiter.capacity + jupLimiter.rate * jupLimiter.updated

\* Two tasks were inside take() at the same clock value: one was granted the
\* last token, the other found too little and went to sleep.
C13_Witness ==
    /\ jupLog # <<>>
    /\ jupLog[Len(jupLog)] = clk
    /\ jupLimiter.tokens < TokenUnit
    /\ \E c \in Callers : jpc[c] = "sleep" /\ jwake[c] > clk

\* C14: a buy-attempt task starts an attempt only while the clock is at most
\* first_seen + ENTRY_MAX_AGE_SECONDS, first_seen being the candidate's
\* detection time; a failed attempt is followed by the 0.2 s pause and the
\* window test; the task ends at its first submitted buy or when the window
\* test fails, and does nothing after it has ended.
C14_BuyWindow ==
    [][\A m \in Mints :
         /\ bt'[m].attempt # bt[m].attempt
               => /\ bt[m].pc \in {"none", "loop"}
                  /\ bt[m].pc = "loop"
                        => /\ bt'[m].attempt = bt[m].attempt + 1
                           /\ clk <= bt[m].first + ENTRY_MAX_AGE_SECONDS
         /\ (bt[m].pc = "snipe" /\ bt'[m].pc = "sleep")
               => /\ submitted'[m] = submitted[m]
                  /\ bt'[m].wake = clk + BuyRetrySleep
         /\ (bt[m].pc = "sleep" /\ bt'[m].pc # "sleep")
               => bt'[m].pc = "loop" /\ clk >= bt[m].wake
         /\ (bt[m].pc # "done" /\ bt'[m].pc = "done")
               => bt[m].pc = "snipe" /\ submitted'[m] = submitted[m] + 1
         /\ (bt[m].pc # "expired" /\ bt'[m].pc = "expired")
               => bt[m].pc = "loop" /\ clk > bt[m].first + ENTRY_MAX_AGE_SECONDS
         /\ bt[m].pc \in {"done", "expired"} => bt'[m] = bt[m]]_vars

\* One task, admitted for a candidate detected ENTRY_MAX_AGE_SECONDS earlier,
\* failed its only attempt and found the window expired; another retried
\* inside its window and bought on the second attempt.
C14_Witness ==
    \E m, n \in Mints :
        /\ bt[m].pc = "expired" /\ bt[m].attempt = 1 /\ bt[m].first < 0
        /\ bt[n].pc = "done" /\ bt[n].attempt = 2 /\ submitted[n] = 1

\* C15: the admission filters run in the order slot-age, on-chain age,
\* duplicate, rate and stop at the first rejection: a candidate rejected by
\* the slot-age, on-chain age or duplicate filter leaves the buy-rate bucket
\* and seen as they were (and only the duplicate filter counts a duplicate),
\* a candidate rejected by the rate filter was not a duplicate and is not
\* added to seen, no rejection creates a buy task, and the coordinator goes
\* on to its next candidate.
C15_FilterOrder ==
    [][nCands' # nCands
         => /\ nCands' = nCands + 1
            /\ verdict' \in {"slot", "mintage", "dup", "rate", "admitted"}
            /\ verdict' \in {"slot", "mintage", "dup"}
                  => limiter' = limiter /\ seen' = seen
            /\ verdict' \in {"slot", "mintage"} => dups' = dups
            /\ verdict' = "dup"
                  => \E m \in seen : dups' = [dups EXCEPT ![m] = @ + 1]
            /\ verdict' = "rate"
                  => /\ seen' = seen /\ dups' = dups
                     /\ limiter'.tokens < BuyToken
            /\ verdict' # "admitted" => spawned' = spawned /\ bt' = bt
            /\ verdict' = "admitted"
                  => \E m \in Mints \ seen :
                        /\ seen' = seen \cup {m}
                        /\ spawned' = [spawned EXCEPT ![m] = @ + 1]]_vars

\* The coordinator admitted a mint, rejected a second candidate for it as a
\* duplicate, and has just rejected a candidate for another mint by rate.
C15_Witness ==
    /\ verdict = "rate"
    /\ \E m \in Mints : seen = {m} /\ dups[m] = 1
    /\ nCands = 3

\* C17: every buy operation that submits its swap puts exactly one SellIntent
\* for its mint on the sell queue, with tries 0 and sell_at equal to the
\* enqueue moment plus EXIT_AFTER_SECONDS, plus the settlement buffer exactly
\* when no balance was seen in the poll; a buy operation that fails puts
\* nothing on the queue; so the queue holds one intent per submitted buy.
IntentsFor(m) == {k \in 1 .. Len(sellQ) : sellQ[k].mint = m}

C17_SellIntentPerBuy ==
    /\ [](\A m \in Mints : Cardinality(IntentsFor(m)) = submitted[m])
    /\ [][\A m \in Mints :
            /\ submitted'[m] # submitted[m]
                  => /\ submitted'[m] = submitted[m] + 1
                     /\ sellQ' = Append(sellQ,
                           [mint |-> m,
                            sell_at |-> clk + EXIT_AFTER_SECONDS
                                          + (IF bt'[m].balance_seen THEN 0
                                             ELSE SETTLE_BUFFER_SECONDS),
                            tries |-> 0])
            /\ (bt[m].pc = "snipe" /\ bt'[m].pc = "sleep") => sellQ' = sellQ]_vars

\* Both mints were bought, one after a failed first attempt; one poll saw
\* the balance and the other did not, and the two intents are queued.
C17_Witness ==
    /\ Len(sellQ) = 2
    /\ \E m, n \in Mints :
          /\ bt[m].pc = "done" /\ bt[m].balance_seen /\ bt[m].attempt = 2
          /\ bt[n].pc = "done" /\ ~bt[n].balance_seen
          /\ sellQ[1].sell_at # sellQ[2].sell_at

\* C16: one buy operation makes at most 3 quote calls; a swap is built and
\* sent only from a quote whose price impact is at most the ceiling 0.95 and
\* whose estimated pool depth BUY_USD / price impact is at least
\* MIN_LIQUIDITY_USD; when none of the 3 calls yields such a quote the
\* operation fails with no swap built or sent.
WithinLimits(q) ==
    /\ q.tag = "num"
    /\ q.v <= PriceImpactCeiling
    /\ q.v <= 0 \/ BUY_USD * 1000 >= sqFloor * q.v

\* A non-empty quote with no price impact that float() can read.
Unrated(q) == q.tag \in {"none", "bad"}

QuoteGate(Usable(_)) ==
    /\ Len(sqLog) <= QuoteAttempts
    /\ (sqPc \in {"swap", "send", "sent"} \/ sqSwaps > 0)
          => /\ sqQuote = sqLog[Len(sqLog)]
             /\ Usable(sqQuote)
    /\ (sqPc # "quote" /\ \A k \in 1 .. Len(sqLog) : ~Usable(sqLog[k]))
          => /\ sqPc = "raised"
             /\ sqSwaps = 0

C16_QuoteGate == QuoteGate(WithinLimits)

\* C16 as the code has it: the swap is built only from a quote within the
\* two limits or from one that carries no readable price impact.
UnratedOrWithinLimits(q) == Unrated(q) \/ WithinLimits(q)

C16_QuoteGateAmended == QuoteGate(UnratedOrWithinLimits)

\* With a floor of 100 USD the first quote broke the ceiling, the second
\* the floor, the third passed both, and its swap was sent.
C16_Witness ==
    /\ sqFloor = 100
    /\ sqPc = "sent"
    /\ Len(sqLog) = QuoteAttempts
    /\ sqLog[1] = [tag |-> "num", v |-> 951]
    /\ sqLog[2] = [tag |-> "num", v |-> 101]
    /\ sqQuote = [tag |-> "num", v |-> 100]

\* C18: the price oracle never fails: a call whose upstream request failed
\* (status other than 200, network error, timeout, missing or unparseable
\* body) returns a value instead of raising, and with nothing in the cache
\* that value is the fallback constant.
C18_OracleNeverRaises ==
    prResp.tag \in UpstreamFailures
        => /\ prResult.kind = "value"
           /\ prCache.v = 0 => prResult = Returned(FallbackPrice)


\* C19: over the whole life of the watcher, across reconnects, the log
\* scan, the transaction fallback and the forced mint put on the queue at
\* the start, an address is put on the candidate queue at most once.
C19_AtMostOnce == \A a \in Addresses : wPuts[a] <= 1

\* C19, amended: the forced mint is put on the queue at the start without
\* entering `seen`, so it is put at most twice (once forced, once
\* detected); every other address is put at most once, whatever the number
\* of reconnects and on whichever of the two detection paths it is met.
C19_AtMostOnceDetected ==
    \A a \in Addresses : wPuts[a] <= (IF a = wForce THEN 2 ELSE 1)

\* An address was enqueued once, met again on the log path and on the
\* fallback path and skipped both times, on a second connection.
C19_Witness ==
    /\ wConns = 2
    /\ wPc = "listening"
    /\ wDups.log >= 1
    /\ wDups.tx >= 1
    /\ wPuts["tB"] = 1

\* The message of a pass named the launch program and had a creation marker.
FromLaunchWithMarker(msg) ==
    msg.kind = "log" /\ msg.pid = PUMPFUN_PROGRAM_ID /\ msg.marker

\* A pass of the receive loop put something on the queue or created a
\* fallback task.
PassActed == wPuts' # wPuts \/ wPending' # wPending

\* C20: a pass of the receive loop enqueues a candidate or creates the
\* fallback task only if the notification comes from the launch program
\* and its log text has a creation marker; otherwise neither happens.
C20_CreationGate ==
    [][(wMsgs' = wMsgs + 1 /\ PassActed) => FromLaunchWithMarker(wMsg')]_vars

\* The message had a creation marker and either named the launch program or
\* named none while the launch program is the only one watched.
MarkerAndLaunchOrUnnamed(msg) ==
    /\ msg.kind = "log"
    /\ msg.marker
    /\ \/ msg.pid = PUMPFUN_PROGRAM_ID
       \/ msg.pid = NoAddress /\ wWatch = <<PUMPFUN_PROGRAM_ID>>

\* C20, amended: a pass enqueues a candidate or creates the fallback task
\* only if the log text has a creation marker and the notification names
\* the launch program, or names no program while WATCH_PROGRAM_IDS is
\* exactly the launch program; otherwise neither happens.
C20_CreationGateAmended ==
    [][(wMsgs' = wMsgs + 1 /\ PassActed) => MarkerAndLaunchOrUnnamed(wMsg')]_vars

\* A notification of the launch program with a marker was enqueued, with
\* another program watched as well.
C20_Witness ==
    /\ Len(wWatch) = 2
    /\ wMsgs >= 1
    /\ FromLaunchWithMarker(wMsg)
    /\ wMsg.cands = <<"tB", "tA">>
    /\ wPuts["tB"] = 1
    /\ wForce = NoAddress


\* C21: after an error while subscribing or listening the watcher sleeps
\* 0.5 s, the same at every error, and then connects again: however many
\* errors came before, a new connection attempt always follows.
C21_ReconnectForever ==
    /\ [](wPc = "backoff" => wWait = RECONNECT_WAIT_MS)
    /\ [][wWait # 0 => wWait' = wWait]_vars
    /\ [](wPc = "backoff" => <>(wPc = "connecting"))

\* A second error in a row: the watcher sleeps again after a failed
\* connection attempt that followed a lost connection.
C21_Witness ==
    /\ wPc = "backoff"
    /\ wConns = MaxConnects
    /\ wMsgs >= 1
    /\ wWait = RECONNECT_WAIT_MS


\* C22: a failure of one token's buy or sell (zero balance, quote failure,
\* build or submit exception, account-creation failure, window expiry)
\* never ends the coordinator loop or seller_loop: seller_loop is never
\* dead, a failed sell attempt leaves it at its next sell_queue.get(), where
\* it takes the next queued intent, and whatever the buy-attempt tasks and
\* the seller did, the coordinator takes its next candidate.
C22_FailuresIsolated ==
    /\ [](slPc # "dead")
    /\ [](\A m \in Mints : bt[m].pc # "crashed")
    /\ []((slPc = "get" /\ sellQ # <<>>) => ENABLED SellerGet)
    /\ [](nCands < MaxCands => ENABLED CoordEval)
    /\ [][slPc = "work" => slPc' \in {"work", "get"}]_vars

\* The buy for one mint failed and its window expired, the buy for the other
\* went through at its second attempt, its sell failed, was queued again
\* and then sent, and the coordinator has taken a third candidate.
C22_Witness ==
    /\ bt["mA"].pc = "expired"
    /\ bt["mA"].attempt >= 1
    /\ bt["mB"].pc = "done"
    /\ bt["mB"].attempt = 2
    /\ sh["mB"].requeues >= 1
    /\ sh["mB"].sold
    /\ nCands = MaxCands
    /\ slPc = "get"


\* C23: when the coordinator is cancelled, its cleanup cancels the seller
\* task and then closes the aggregator session and the wallet session; a
\* failure or a cancellation raised inside one step is swallowed, so the
\* cleanup never ends before all three steps were run.
C23_CleanupRunsAll ==
    (cuSite = "coordinator" /\ cuPc \in {"done", "escaped"})
        => /\ cuPc = "done"
           /\ [n \in 1..Len(cuLog) |-> cuLog[n].step]
                 = <<"seller", "jup", "wallet">>


\* jup.quote returned a quote that one of the two tests rejects: over the
\* price-impact ceiling, or estimated pool depth below the floor.
Rejected(q) ==
    /\ q.tag # "raise"
    /\ ~LooksLiquidEnough(q) \/ BelowLiquidityFloor(q, sqFloor)

\* C24: a quote rejected as illiquid, over the price-impact ceiling or below
\* the pool-depth floor is not retried inside the buy operation: the
\* rejected quote call is the last one and the operation has failed.
C24_RejectionNotRetried ==
    \A i \in 1..Len(sqLog) :
        Rejected(sqLog[i]) => i = Len(sqLog) /\ sqPc = "raised"


\* C25: all buys started by the concurrently running per-token tasks draw
\* from one shared bucket of capacity one token refilling at
\* MAX_BUYS_PER_SEC, so in stairs mode the buys started process-wide in any
\* window of length T number at most capacity + rate * T.
C25_SharedBuyBucket == WindowBound(NewBucket(1, 1, 0), dBuys)

\* C26: the tasks created and not ended never number more than
\* max(1, STAIRS_MAX_CONCURRENT), the free slots and the running tasks
\* always add up to that number, every task that ends, by return, exception
\* or cancellation, frees one slot, and a dispatcher waiting for a slot
\* goes on as soon as one is free.
C26_DispatcherSlots ==
    /\ [](Cardinality(RunningStairs) <= Slots(dCfg))
    /\ [](dSem + Cardinality(RunningStairs) = Slots(dCfg))
    /\ [](dActive = RunningStairs)
    /\ []((dPc = "acquire" /\ dSem > 0) => ENABLED DispatchAcquire)
    /\ [](dPc = "acquire" /\ dSem = 0 => Cardinality(RunningStairs) = Slots(dCfg))
    /\ [][Cardinality(RunningStairs') < Cardinality(RunningStairs)
            => dSem' = dSem + 1]_vars

\* With one slot, a task ended by an exception while the dispatcher waited,
\* and the waiting candidate's task was then created.
C26_Witness ==
    /\ Slots(dCfg) = 1
    /\ dWaited
    /\ dLastEnd = "exception"
    /\ dPc = "get"
    /\ dStarts = 2
    /\ Cardinality(RunningStairs) = 1

\* Round i was the last one the task started.
LastRound(i) == i = Len(rnLog)

\* C32: in the re-entry scalp loop, after a round whose realized PnL is
\* negative no further round is started for that token by that task (it
\* waits the blacklist cooldown and stops); after a non-negative round a new
\* round starts only if re-entry is enabled and, when the next-pop gate is
\* required, a fresh-flow signal arrived before the timeout.
C32_ReentryRules ==
    /\ [](\A i \in 1 .. Len(rnLog) :
            /\ rnLog[i].pnl < 0 =>
                  LastRound(i) /\ rnPc \in {"blacklist", "done"}
            /\ ~LastRound(i) =>
                  /\ rnLog[i].pnl \in {0, 1}
                  /\ rnReenter
                  /\ rnNeedsPop => rnLog[i].gate = "flow"
                  /\ ~rnNeedsPop => rnLog[i].gate = "none")
    /\ [][(rnPc = "round" /\ rnPc' # "round" /\ rnLog'[Len(rnLog')].pnl < 0)
           => rnPc' = "blacklist"]_vars
    /\ [][rnPc = "blacklist" => rnPc' \in {"blacklist", "done"}]_vars
    /\ [][(rnPc \in {"done", "raised"})
           => (rnPc' = rnPc /\ rnLog' = rnLog)]_vars

\* Two rounds without a loss, each followed by fresh flow, then a losing
\* third round: the task is in its blacklist sleep.
C32_Witness ==
    /\ rnReenter /\ rnNeedsPop /\ rnPc = "blacklist"
    /\ rnLog = <<[pnl |-> 0, gate |-> "flow"], [pnl |-> 1, gate |-> "flow"],
                 [pnl |-> -1, gate |-> "none"]>>

\* C33: when the aggregator quote for one token unit succeeds and the
\* reference price is positive, the mcap estimate equals (quote output in
\* native units x reference USD price) x total supply and is positive
\* whenever the quoted output is positive; the estimate is 0 only when the
\* quote or the price lookup fails.
C33_McapEstimate ==
    \A i \in 1 .. Len(meLog) :
        LET c == meLog[i]
        IN  /\ (c.quote.ok /\ c.sol.ok /\ c.sol.usd > 0) =>
                  /\ c.v = c.quote.out * c.sol.usd
                  /\ c.quote.out > 0 => c.v > 0
            /\ c.v = 0 => (~c.quote.ok \/ ~c.sol.ok \/ c.quote.out = 0)

\* The finalized buckets that received at least one non-empty batch.
NonEmptyBuckets == {i \in 1 .. Len(bdClosed) : bdClosed[i] > 0}

RetryCountShared ==
    /\ \A i \in 1 .. Len(sellQ) :
          /\ sellQ[i].tries < SELL_RETRY_MAX_TRIES
          /\ sellQ[i].tries = EndedAttempts(sellQ[i].mint)
    /\ slItem # NoItem =>
          /\ slItem.tries < SELL_RETRY_MAX_TRIES
          /\ slItem.tries = EndedAttempts(slItem.mint)

\* No mint is attempted more than SELL_RETRY_MAX_TRIES times, and an
\* abandoned one was attempted exactly that often.
SellAttemptsBounded ==
    \A m \in Mints :
        /\ sh[m].attempts <= SELL_RETRY_MAX_TRIES
        /\ sh[m].abandoned => sh[m].attempts = SELL_RETRY_MAX_TRIES
        /\ (sh[m].abandoned \/ sh[m].sold) => ~IntentAlive(m)

\* A failed attempt of whatever kind puts the intent back with tries one
\* higher or abandons it at tries + 1 = SELL_RETRY_MAX_TRIES.
FailureCountsOnce ==
    (slPc = "work" /\ slPc' = "get" /\ ~sh'[slItem.mint].sold) =>
        IF slItem.tries + 1 < SELL_RETRY_MAX_TRIES
        THEN /\ sellQ' = Append(sellQ, [mint |-> slItem.mint,
                                        sell_at |-> sellQ'[Len(sellQ')].sell_at,
                                        tries |-> slItem.tries + 1])
             /\ ~sh'[slItem.mint].abandoned
        ELSE /\ sellQ' = sellQ
             /\ sh'[slItem.mint].abandoned

\* C35: the retry count of a sell intent is one counter for zero balance,
\* missing quote and build or submit exceptions: each failed attempt raises
\* it by exactly 1, every intent in the queue has a count below
\* SELL_RETRY_MAX_TRIES, and whatever the mix of failures a mint is attempted
\* at most SELL_RETRY_MAX_TRIES times before it is sold or abandoned.
C35_SharedRetryCount ==
    /\ [](RetryCountShared /\ SellAttemptsBounded)
    /\ [][FailureCountsOnce]_vars

\* An intent was abandoned at its fifth attempt after failures that were
\* not all zero balance, while the other mint's intent, with two failures
\* behind it, waits in the queue.
C35_Witness ==
    \E m \in Mints :
        /\ sh[m].abandoned /\ ~sh[m].zeroOnly
        /\ sh[m].attempts = SELL_RETRY_MAX_TRIES
        /\ \E i \in 1 .. Len(sellQ) : sellQ[i].mint # m /\ sellQ[i].tries = 2

\* C36: a candidate whose age since first detection exceeds
\* ENTRY_MAX_AGE_SECONDS when the coordinator evaluates it is rejected: it
\* is not added to seen, takes no token from the buy-rate bucket and gets no
\* buy-attempt task.
C36_AgeFilter ==
    [][\A m \in Mints :
          (nCands' = nCands + 1 /\ clk - bt'[m].first > ENTRY_MAX_AGE_SECONDS
             /\ bt[m].pc = "none")
             => /\ seen' = seen
                /\ limiter'.tokens >= limiter.tokens
                /\ spawned'[m] = spawned[m]
                /\ bt'[m] = bt[m]]_vars

\* C37: one attempt counter serves 429, 5xx and network errors: whatever
\* their interleaving a logical call makes at most JUP_MAX_RETRIES + 1 HTTP
\* attempts and at most JUP_MAX_RETRIES sleeps, a retryable outcome raises
\* only at attempt JUP_MAX_RETRIES + 1, and any other non-200 status or a
\* 200 with an unparseable body ends the call at that attempt, no sleep
\* following it.
C37_SharedAttemptCounter ==
    /\ rqAttempt <= JUP_MAX_RETRIES + 1
    /\ Len(rqSleeps) <= JUP_MAX_RETRIES
    /\ rqPc \in {"throttle", "http"} => Len(rqSleeps) = rqAttempt /\ rqError = ""
    /\ rqPc \in {"raised", "returned"} => Len(rqSleeps) = rqAttempt - 1
    /\ rqError \in {"429", "5xx", "client"} =>
          rqPc = "raised" /\ rqAttempt = JUP_MAX_RETRIES + 1
    /\ rqError \in {"http", "badjson"} => rqPc = "raised"

\* A call that slept after a 429 with Retry-After and after other failures
\* raised on a network error at its sixth attempt.
C37_Witness ==
    /\ rqPc = "raised" /\ rqError = "client" /\ rqUsedRA
    /\ rqAttempt = JUP_MAX_RETRIES + 1 /\ Len(rqSleeps) = JUP_MAX_RETRIES

\* Sell intents of mint m in the queue and in the seller's hands.
IntentsOf(m) ==
    Cardinality({i \in 1 .. Len(sellQ) : sellQ[i].mint = m})
        + (IF slItem.mint = m THEN 1 ELSE 0)

\* At most one intent per mint, one exactly from the buy until the sale or
\* the abandonment, none before and none after.
OneIntentPerToken ==
    \A m \in Mints :
        /\ IntentsOf(m) <= 1
        /\ IntentsOf(m) = 1 <=>
              (submitted[m] >= 1 /\ ~sh[m].sold /\ ~sh[m].abandoned)

\* A re-enqueue moves the intent from the seller's hands to the queue.
RequeueReplaces ==
    \A m \in Mints :
        sh'[m].requeues # sh[m].requeues =>
            /\ slItem.mint = m /\ slItem' = NoItem
            /\ sellQ'[Len(sellQ')].mint = m
            /\ Len(sellQ') = Len(sellQ) + 1

\* C38: in classic mode the sell queue and the seller's hands together hold
\* at most one intent per mint at any time: a re-enqueue replaces the intent
\* being processed, and a mint whose intent was sold or abandoned never has
\* an intent again.
C38_OneIntentPerToken ==
    /\ []OneIntentPerToken
    /\ [][RequeueReplaces]_vars
    /\ [][\A m \in Mints : (sh[m].sold \/ sh[m].abandoned) => IntentsOf(m)' = 0]_vars

\* One mint was bought, its sell failed, was queued again and then sent, a
\* further candidate for it was rejected as a duplicate, and the other
\* mint's intent is in the queue.
C38_Witness ==
    \E m, n \in Mints :
        /\ sh[m].sold /\ sh[m].requeues >= 1 /\ dups[m] >= 1
        /\ verdict = "dup"
        /\ IntentsOf(m) = 0
        /\ n # m /\ IntentsOf(n) = 1 /\ slItem = NoItem

\* C39: at most one watcher heartbeat task is alive at any time: the
\* heartbeat started for a connection stops when the connection is lost, so
\* however often the watcher reconnects at most one heartbeat runs.
C39_OneHeartbeat == wBeats <= 1

\* The ladder levels sold at so far rise strictly and lie between
\* DYNAMIC_BAG_START_USD and the reading.
LadderLevelsOnce ==
    /\ \A i \in 1 .. Len(ldSold) :
          DYNAMIC_BAG_START_USD <= ldSold[i] /\ ldSold[i] <= ldMcap
    /\ \A i, j \in 1 .. Len(ldSold) : i < j => ldSold[i] < ldSold[j]

\* C40: in one poll of a dynamic-bag round the ladder loop sells finitely
\* often, for every configured step: each sell raises next_level by
\* DYNAMIC_BAG_STEP_USD, the loop is left with next_level > mcap,
\* next_level never decreases over the round and no level is sold twice.
C40_LadderFinite ==
    /\ []LadderLevelsOnce
    /\ []((ldPc = "poll" /\ ldPolls > 0) => ldLevel > ldMcap)
    /\ [][/\ ldLevel' >= ldLevel
          /\ Len(ldSold') > Len(ldSold) => ldLevel' = ldLevel + ldStep]_vars

=============================================================================
